---------------------------- MODULE Spec2Model ----------------------------
(***************************************************************************)
(* A model of the password keeper:                                         *)
(*   - StorageEngine::writeFileContent, step by step, against a POSIX      *)
(*     directory (names bound to inodes), for one writer (SpecSave) and    *)
(*     for two interleaved writers (SpecRace);                             *)
(*   - StorageEngine::readDbFile / writeDbFile with the DER record codec   *)
(*     and the AEAD envelope (SpecDb);                                     *)
(*   - Randomizer::getBits over the 8 x 32 bit pool (SpecPool), the        *)
(*     generators built on it (SpecGen) and makeName (SpecName);           *)
(*   - the steps of main and of the main window's buttons (SpecMain), the  *)
(*     engine under the program or a direct caller (SpecVault);            *)
(*   - the table and the comments of the main window (SpecEdit).           *)
(***************************************************************************)
EXTENDS Integers, Sequences, FiniteSets, TLC

VARIABLES
    \* ---- file replacement (writeFileContent) ----
    dir,        \* directory: file name -> inode number, or NoFile
    ino,        \* inode number -> file contents (a sequence of chunks)
    wr,         \* per writer: the locals of its writeFileContent call
    active,     \* the writers (processes saving to the same dbFileName)
    saves,      \* number of saves begun so far (numbers the envelopes)
    \* ---- entropy pool (Randomizer) ----
    pool,       \* uint32_t pool[8]: limb k is pool[k + 1], a word of 32 bits
    poolSize,   \* int poolSize: number of unread bits
    dst,        \* the caller's uint32_t that getBits stores into
    filled,     \* history: the buffer RAND_bytes delivered last
    last,       \* history: the last getBits call and the stream bits it was due
    \* ---- vault engine (StorageEngine) ----
    data,       \* std::multiset<DataRow> data, in iteration order
    key,        \* QByteArray key: NoKey while empty
    errorDescription,
    disk,       \* the file under dbFileName: an envelope, or NoDisk
    call,       \* history: the last engine call and what it returned
    written,    \* history: the records of the last successful writeDbFile
    rounds,     \* history: payloads written by successive open-then-save rounds
    \* ---- generators (Randomizer::make...) ----
    gen,        \* the generator call: its arguments, position and result
    \* ---- the program (main) ----
    main        \* the process: its arguments, position in main and exit code

saveVars == <<dir, ino, wr, active, saves>>

poolVars == <<pool, poolSize, dst, filled, last>>

dbVars == <<data, key, errorDescription, disk, call, written, rounds>>

vars == <<dir, ino, wr, active, saves, pool, poolSize, dst, filled, last,
          data, key, errorDescription, disk, call, written, rounds, gen, main>>

-----------------------------------------------------------------------------
(* Bounds of the model *)

\* temp names dbFileName_0 .. dbFileName_MaxSuffix are tried
MaxSuffix == 2
\* saves begun in one behaviour
MaxSaves == 3
\* number of pieces an envelope reaches the disk in
Chunks == 2
\* number of different buffers RAND_bytes delivers
NumFills == 2
\* records in a vault file found on disk
MaxRecords == 2
\* RAND_bytes calls that one generator call can see succeed
MaxAttempts == 2
\* longest PIN asked for
MaxPin == 6
\* longest password, in characters, and hex block, in bytes
MaxChars == 3

MaxSyllables == 2

MaxMismatches == 1

\* calls of save() in one run of the editor
MaxEditorSaves == 2

\* rows of the table, the last one included
MaxTableRows == 3

\* rows that are entered in one run of the editor
MaxEntered == 2

-----------------------------------------------------------------------------
(* File names and contents *)

NoFile == -1

DbFileName == <<"db">>

\* dbFileName + "_" + QString::number( suffixIndex )
IndexedName(i) == <<"db", "_", i>>

Names == {DbFileName} \cup {IndexedName(i) : i \in 0..MaxSuffix}

\* the complete envelope of save number s, as the chunks it is written in
Envelope(s) == [k \in 1..Chunks |-> <<s, k>>]

\* a hole left by writing past the end of a truncated file
Hole == <<0, 0>>

Exists(d, n) == d[n] # NoFile

\* what a reader gets when the open fails
Absent == <<<<-1, -1>>>>

\* contents seen by a reader opening name n
Content(d, i, n) == IF Exists(d, n) THEN i[d[n]] ELSE Absent

\* write(2) of one chunk at offset off (0-based) into contents c
PutChunk(c, off, ch) ==
    [k \in 1..(IF Len(c) > off + 1 THEN Len(c) ELSE off + 1) |->
        IF k = off + 1 THEN ch
        ELSE IF k <= Len(c) THEN c[k] ELSE Hole]

FreshIno == Len(ino) + 1


-----------------------------------------------------------------------------
(* uint32_t arithmetic: a word is its 32 bits, bit i at index i + 1 *)

WordBits == 32

PoolLimbs == 8

PoolBits == PoolLimbs * WordBits

Zero32 == [i \in 1..WordBits |-> 0]

AllOnes == [i \in 1..WordBits |-> 1]

BitOr(a, b) == [i \in 1..WordBits |-> IF a[i] = 1 \/ b[i] = 1 THEN 1 ELSE 0]

BitAnd(a, b) == [i \in 1..WordBits |-> IF a[i] = 1 /\ b[i] = 1 THEN 1 ELSE 0]

BitNot(a) == [i \in 1..WordBits |-> 1 - a[i]]

\* a >> c, 0 <= c < 32
Shr(a, c) == [i \in 1..WordBits |-> IF i + c <= WordBits THEN a[i + c] ELSE 0]

\* a << c; for c >= 32 the shift is undefined: the build either takes the
\* count modulo 32 (wraps) or shifts everything out
Shl(a, c, wraps) ==
    LET k == IF c >= WordBits /\ wraps THEN c % WordBits ELSE c
    IN  [i \in 1..WordBits |-> IF i > k THEN a[i - k] ELSE 0]

-----------------------------------------------------------------------------
(* Randomizer: the pool and getBits *)

\* the buffers RAND_bytes may deliver: all ones, and mixed patterns
Fill(p) ==
    [l \in 1..PoolLimbs |->
        [i \in 1..WordBits |->
            IF p = 1 THEN 1
            ELSE IF ((i * i + 3 * l + i \div 5) % (p + 1)) = 0 THEN 1 ELSE 0]]

Fills == {Fill(p) : p \in 1..NumFills}

\* mutant: the consumed bits of the limb are not masked out
RECURSIVE DrawLoop_noMask(_, _, _, _, _)
DrawLoop_noMask(res, count, pl, size, wraps) ==
    IF count > 0
    THEN LET limbNo == (size - 1) \div WordBits
             limbRem == size - limbNo * WordBits
         IN  IF limbRem <= count
             THEN DrawLoop_noMask(BitOr(Shl(res, count, wraps), pl[limbNo + 1]),
                                  count - limbRem, pl, size - limbRem, wraps)
             ELSE DrawLoop_noMask(BitOr(Shl(res, count, wraps),
                                        Shr(pl[limbNo + 1], limbRem - count)),
                                  0, pl, size - count, wraps)
    ELSE [res |-> res, pool |-> pl, poolSize |-> size]

\* the while( count > 0 ) loop of getBits
RECURSIVE DrawLoop(_, _, _, _, _)
DrawLoop(res, count, pl, size, wraps) ==
    IF count > 0
    THEN LET limbNo == (size - 1) \div WordBits
             limbRem == size - limbNo * WordBits
         IN  IF limbRem <= count
             THEN DrawLoop(BitOr(Shl(res, count, wraps), pl[limbNo + 1]),
                           count - limbRem, pl, size - limbRem, wraps)
             ELSE DrawLoop(BitOr(Shl(res, count, wraps),
                                 Shr(pl[limbNo + 1], limbRem - count)),
                           0,
                           [pl EXCEPT ![limbNo + 1] =
                               BitAnd(@, BitNot(Shl(AllOnes, limbRem - count, wraps)))],
                           size - count, wraps)
    ELSE [res |-> res, pool |-> pl, poolSize |-> size]

\* res = pool[0] & ~( ((uint32_t)-1) << poolSize ): the residual old bits
Residual(pl, size) == BitAnd(pl[1], BitNot(Shl(AllOnes, size, FALSE)))

\* bit f of the pool taken as one number of 256 bits: bit f % 32 of limb f / 32
FlatBit(pl, f) == pl[(f \div WordBits) + 1][(f % WordBits) + 1]

\* the next count bits of the CSPRNG stream, first bit first, when size bits of
\* the buffer old are unread and the buffer fresh follows: each buffer is read
\* from its high end (limb 7 down to limb 0, high bit first)
NextBits(old, size, fresh, count) ==
    [j \in 1..count |->
        IF j <= size THEN FlatBit(old, size - j)
        ELSE FlatBit(fresh, PoolBits - (j - size))]

\* the builds to tell apart in a call: the undefined shift needs count = 32
Builds(count) == IF count >= WordBits THEN BOOLEAN ELSE {FALSE}

NoDraw == [count |-> 0, ok |-> TRUE, refill |-> FALSE, due |-> <<>>, had |-> 0]

\* getBits( &dst, count ) with count <= poolSize: no refill
GetBits(count, wraps) ==
    /\ last = NoDraw
    /\ count <= poolSize
    /\ LET r == DrawLoop(Zero32, count, pool, poolSize, wraps)
       IN  /\ pool' = r.pool
           /\ poolSize' = r.poolSize
           /\ dst' = r.res
    /\ last' = [count |-> count, ok |-> TRUE, refill |-> FALSE,
                due |-> NextBits(filled, poolSize, filled, count), had |-> poolSize]
    /\ UNCHANGED <<filled, saveVars, dbVars, gen, main>>

\* getBits( &dst, count ) with count > poolSize: the residual bits are taken
\* and RAND_bytes delivers the buffer fresh
GetBitsRefill(count, fresh, wraps) ==
    /\ last = NoDraw
    /\ count > poolSize
    /\ LET r == DrawLoop(Residual(pool, poolSize), count - poolSize, fresh, PoolBits, wraps)
       IN  /\ pool' = r.pool
           /\ poolSize' = r.poolSize
           /\ dst' = r.res
    /\ filled' = fresh
    /\ last' = [count |-> count, ok |-> TRUE, refill |-> TRUE,
                due |-> NextBits(filled, poolSize, fresh, count), had |-> poolSize]
    /\ UNCHANGED <<saveVars, dbVars, gen, main>>

\* mutant: the counter keeps the residual bits when RAND_bytes fails
GetBitsFail_keepsSize(count) ==
    /\ last = NoDraw
    /\ count > poolSize
    /\ last' = [count |-> count, ok |-> FALSE, refill |-> TRUE,
                due |-> <<>>, had |-> poolSize]
    /\ UNCHANGED <<pool, poolSize, dst, filled, saveVars, dbVars, gen, main>>

\* getBits( &dst, count ) with count > poolSize when RAND_bytes fails:
\* poolSize = 0; return false; dst is not stored into
GetBitsFail(count) ==
    /\ last = NoDraw
    /\ count > poolSize
    /\ poolSize' = 0
    /\ last' = [count |-> count, ok |-> FALSE, refill |-> TRUE,
                due |-> <<>>, had |-> poolSize]
    /\ UNCHANGED <<pool, dst, filled, saveVars, dbVars, gen, main>>

\* the pool with size unread bits left of the buffer pl: the limb being
\* consumed has its consumed bits masked out
PoolAt(pl, size) ==
    IF size = 0 \/ size % WordBits = 0 THEN pl
    ELSE [pl EXCEPT ![((size - 1) \div WordBits) + 1] =
              BitAnd(@, BitNot(Shl(AllOnes, size % WordBits, FALSE)))]

\* the pool of a process that makes no draws
PoolIdle ==
    /\ pool = Fill(1)
    /\ poolSize = 0
    /\ dst = Zero32
    /\ filled = Fill(1)
    /\ last = NoDraw

\* Randomizer::Randomizer() leaves poolSize = 0 and the pool unset; earlier
\* calls leave any number of unread bits of the buffer delivered last
InitPoolVars ==
    /\ \E pl \in Fills, size \in 0..PoolBits :
          /\ pool = PoolAt(pl, size)
          /\ poolSize = size
          /\ filled = pl
    /\ dst = Zero32
    /\ last = NoDraw

\* one call of getBits, for every count and every outcome of RAND_bytes
NextPool ==
    \E count \in 1..WordBits :
        \/ \E wraps \in Builds(count) : GetBits(count, wraps)
        \/ \E fresh \in Fills, wraps \in Builds(count) : GetBitsRefill(count, fresh, wraps)
        \/ GetBitsFail(count)

-----------------------------------------------------------------------------
(* Byte strings *)

Sub(b, from, to) == [k \in 1..(to - from) |-> b[from + k]]

RECURSIVE Concat(_)
Concat(ss) == IF ss = <<>> THEN <<>> ELSE Head(ss) \o Concat(Tail(ss))

RECURSIVE SumOf(_)
SumOf(ns) == IF ns = <<>> THEN 0 ELSE Head(ns) + SumOf(Tail(ns))

-----------------------------------------------------------------------------
(* The DER subset of OpenSSL the engine calls *)

V_ASN1_UNIVERSAL == 0

V_ASN1_CONSTRUCTED == 32

V_ASN1_CONTEXT_SPECIFIC == 128

V_ASN1_PRIVATE == 192

V_ASN1_PRIMITIVE_TAG == 31

V_ASN1_SEQUENCE == 16

V_ASN1_SET == 17

\* the return value of ASN1_get_object on a header error
HeaderError == 128

\* the bytes of n, most significant first, without leading zero bytes
RECURSIVE BigEndian(_)
BigEndian(n) == IF n = 0 THEN <<>> ELSE BigEndian(n \div 256) \o <<n % 256>>

\* the number a byte string encodes, most significant byte first
RECURSIVE FromBigEndian(_)
FromBigEndian(b) ==
    IF b = <<>> THEN 0 ELSE FromBigEndian(Sub(b, 0, Len(b) - 1)) * 256 + b[Len(b)]

\* asn1_put_length
LengthBytes(n) ==
    IF n <= 127 THEN <<n>> ELSE <<128 + Len(BigEndian(n))>> \o BigEndian(n)

\* ASN1_put_object for a tag below 31: the identifier byte and the length
PutObject(constructed, length, tag, xclass) ==
    <<(IF constructed = 1 THEN V_ASN1_CONSTRUCTED ELSE 0) + xclass + tag>>
        \o LengthBytes(length)

\* ASN1_object_size for a tag below 31
ObjectSize(constructed, length, tag) ==
    1 + 1 + (IF length > 127 THEN Len(BigEndian(length)) ELSE 0) + length

\* the tag bytes of the high-tag-number form: the offset behind the last one
\* (0 when the bytes run out) and the tag
RECURSIVE HighTag(_, _, _)
HighTag(b, at, acc) ==
    IF at > Len(b) THEN [next |-> 0, tag |-> 0]
    ELSE IF b[at] >= 128 THEN HighTag(b, at + 1, acc * 128 + (b[at] - 128))
    ELSE [next |-> at + 1, tag |-> acc * 128 + b[at]]

GetObjectError == [ret |-> HeaderError, tag |-> 0, xclass |-> 0, length |-> 0, hl |-> 0]

\* asn1_get_length at offset at (1-based) of b: hl is the header length so far
GetLength(b, at, ret, tag, xclass) ==
    IF at > Len(b) THEN GetObjectError
    ELSE LET lb == b[at]
             max == Len(b) - at
             i == lb % 128
             lenBytes == Sub(b, at, at + i)
             zeros == IF i = 0 THEN 0
                      ELSE LET nz == {k \in 1..i : lenBytes[k] # 0}
                           IN  IF nz = {} THEN i
                               ELSE (CHOOSE k \in nz : \A m \in nz : k <= m) - 1
             withLength(len, hl, inf) ==
                 IF inf = 1 /\ ret = 0 THEN GetObjectError
                 ELSE [ret |-> ret + inf + (IF len > Len(b) - hl THEN HeaderError ELSE 0),
                       tag |-> tag, xclass |-> xclass, length |-> len, hl |-> hl]
         IN  IF lb = 128 THEN withLength(0, at, 1)
             ELSE IF lb < 128 THEN withLength(lb, at, 0)
             ELSE IF max < i + 1 THEN GetObjectError
             ELSE IF i - zeros > 8 THEN GetObjectError
             ELSE withLength(FromBigEndian(Sub(lenBytes, zeros, i)), at + i, 0)

\* ASN1_get_object( &p, &length, &tag, &xclass, omax ) with b the omax bytes at p
GetObject(b) ==
    IF Len(b) = 0 THEN GetObjectError
    ELSE LET ret == ((b[1] \div 32) % 2) * V_ASN1_CONSTRUCTED
             xclass == (b[1] \div 64) * 64
             i == b[1] % 32
         IN  IF i = V_ASN1_PRIMITIVE_TAG
             THEN LET ht == HighTag(b, 2, 0)
                  IN  IF ht.next = 0 \/ ht.next > Len(b) THEN GetObjectError
                      ELSE GetLength(b, ht.next, ret, ht.tag, xclass)
             ELSE IF Len(b) = 1 THEN GetObjectError
             ELSE GetLength(b, 2, ret, i, xclass)

-----------------------------------------------------------------------------
(* DataRow *)

DATA_COLS_COUNT == 4

cellTags == <<0, 1, 2, 16>>

\* DataRow::DataRow(): four empty cells
EmptyRow == [i \in 1..DATA_COLS_COUNT |-> <<>>]

\* the index of the cell a tag belongs to, 0 for a tag outside cellTags
CellOf(tag) ==
    IF \E i \in 1..DATA_COLS_COUNT : cellTags[i] = tag
    THEN CHOOSE i \in 1..DATA_COLS_COUNT : cellTags[i] = tag
    ELSE 0

\* mutant: a repeated role tag replaces the cell
RECURSIVE ParseCells_replace(_, _, _, _)
ParseCells_replace(buf, cur, entryEnd, row) ==
    IF cur < entryEnd
    THEN LET h == GetObject(Sub(buf, cur, entryEnd))
         IN  IF h.ret # 0 \/ h.xclass # V_ASN1_CONTEXT_SPECIFIC THEN row
             ELSE LET c == CellOf(h.tag)
                      body == Sub(buf, cur + h.hl, cur + h.hl + h.length)
                  IN  ParseCells_replace(buf, cur + h.hl + h.length, entryEnd,
                                         IF c = 0 THEN row ELSE [row EXCEPT ![c] = body])
    ELSE row

\* mutant: the cell header is read against the end of the buffer
ParseCell_noLimit(buf, cur, entryEnd) ==
    LET h == GetObject(Sub(buf, cur, Len(buf)))
    IN  IF h.ret # 0 \/ h.xclass # V_ASN1_CONTEXT_SPECIFIC
        THEN [ok |-> FALSE, cell |-> 0, body |-> <<>>, cur |-> cur]
        ELSE [ok |-> TRUE, cell |-> CellOf(h.tag),
              body |-> Sub(buf, cur + h.hl, cur + h.hl + h.length),
              cur |-> cur + h.hl + h.length]

\* one pass of the while( curPtr < entryEnd ) loop of the parsing constructor:
\* ASN1_get_object over the entryEnd - curPtr bytes left of the record, the
\* cell chosen by the tag, and curPtr += length
ParseCell(buf, cur, entryEnd) ==
    LET h == GetObject(Sub(buf, cur, entryEnd))
    IN  IF h.ret # 0 \/ h.xclass # V_ASN1_CONTEXT_SPECIFIC
        THEN [ok |-> FALSE, cell |-> 0, body |-> <<>>, cur |-> cur]
        ELSE [ok |-> TRUE, cell |-> CellOf(h.tag),
              body |-> Sub(buf, cur + h.hl, cur + h.hl + h.length),
              cur |-> cur + h.hl + h.length]

\* the while( curPtr < entryEnd ) loop of the parsing constructor: cur and
\* entryEnd are offsets into buf
RECURSIVE ParseCells(_, _, _, _)
ParseCells(buf, cur, entryEnd, row) ==
    IF cur < entryEnd
    THEN LET p == ParseCell(buf, cur, entryEnd)
         IN  IF ~p.ok THEN row
             ELSE ParseCells(buf, p.cur, entryEnd,
                             IF p.cell = 0 THEN row
                             ELSE [row EXCEPT ![p.cell] = @ \o p.body])
    ELSE row

\* DataRow::DataRow( &ptr, endPtr ): the row and the new value of ptr
ParseRow(buf, ptr, endPtr) ==
    LET h == GetObject(Sub(buf, ptr, endPtr))
    IN  IF h.ret # V_ASN1_CONSTRUCTED \/ h.tag # V_ASN1_SET
           \/ h.xclass # V_ASN1_UNIVERSAL \/ ptr + h.hl + h.length > endPtr
        THEN [row |-> EmptyRow, ptr |-> endPtr]
        ELSE [row |-> ParseCells(buf, ptr + h.hl, ptr + h.hl + h.length, EmptyRow),
              ptr |-> ptr + h.hl + h.length]

NonEmptyCells(row) == {i \in 1..DATA_COLS_COUNT : row[i] # <<>>}

\* the sizing part of DataRow::encode: entryDataSize
EntryDataSize(row) ==
    SumOf([i \in 1..DATA_COLS_COUNT |->
             IF row[i] # <<>> THEN ObjectSize(0, Len(row[i]), cellTags[i]) ELSE 0])

\* DataRow::encode( NULL, 0 ) and the value encode( dst, maxSize ) returns
EncodeSize(row, sizing, maxSize) ==
    IF EntryDataSize(row) = 0 THEN 0
    ELSE LET entrySize == ObjectSize(1, EntryDataSize(row), V_ASN1_SET)
         IN  IF ~sizing /\ entrySize > maxSize THEN 0 ELSE entrySize

\* mutant: a frame is emitted for every cell, the empty ones included
EncodeBytes_allCells(row, maxSize) ==
    IF EncodeSize(row, FALSE, maxSize) = 0 THEN <<>>
    ELSE PutObject(1, EntryDataSize(row), V_ASN1_SET, V_ASN1_UNIVERSAL)
         \o Concat([i \in 1..DATA_COLS_COUNT |->
                      PutObject(0, Len(row[i]), cellTags[i], V_ASN1_CONTEXT_SPECIFIC)
                      \o row[i]])

\* the bytes DataRow::encode( dst, maxSize ) stores
EncodeBytes(row, maxSize) ==
    IF EncodeSize(row, FALSE, maxSize) = 0 THEN <<>>
    ELSE PutObject(1, EntryDataSize(row), V_ASN1_SET, V_ASN1_UNIVERSAL)
         \o Concat([i \in 1..DATA_COLS_COUNT |->
                      IF row[i] # <<>>
                      THEN PutObject(0, Len(row[i]), cellTags[i], V_ASN1_CONTEXT_SPECIFIC)
                           \o row[i]
                      ELSE <<>>])

\* constData() read as a C string: the bytes before the first NUL
CStr(cell) ==
    LET nul == {k \in 1..Len(cell) : cell[k] = 0}
    IN  IF nul = {} THEN cell
        ELSE Sub(cell, 0, (CHOOSE k \in nul : \A m \in nul : k <= m) - 1)

\* lexicographic comparison of two byte strings: -1, 0 or 1
BytesCmp(x, y) ==
    LET diff == {k \in 1..(IF Len(x) < Len(y) THEN Len(x) ELSE Len(y)) : x[k] # y[k]}
    IN  IF diff # {}
        THEN LET k == CHOOSE j \in diff : \A m \in diff : j <= m
             IN  IF x[k] < y[k] THEN -1 ELSE 1
        ELSE IF Len(x) < Len(y) THEN -1 ELSE IF Len(x) > Len(y) THEN 1 ELSE 0

\* strcmp( a.constData(), b.constData() )
StrCmp(x, y) == BytesCmp(CStr(x), CStr(y))

\* DataRow::operator <
RECURSIVE RowLessFrom(_, _, _)
RowLessFrom(a, b, i) ==
    IF i > DATA_COLS_COUNT THEN FALSE
    ELSE LET cmpRes == StrCmp(a[i], b[i])
         IN  IF cmpRes < 0 THEN TRUE
             ELSE IF cmpRes > 0 THEN FALSE
             ELSE RowLessFrom(a, b, i + 1)

RowLess(a, b) == RowLessFrom(a, b, 1)

\* std::multiset::insert: behind the elements the new one is not less than
Insert(rows, r) ==
    LET up == {k \in 1..Len(rows) : RowLess(r, rows[k])}
        at == IF up = {} THEN Len(rows) + 1 ELSE CHOOSE k \in up : \A m \in up : k <= m
    IN  [k \in 1..(Len(rows) + 1) |->
            IF k < at THEN rows[k] ELSE IF k = at THEN r ELSE rows[k - 1]]

-----------------------------------------------------------------------------
(* StorageEngine::writeFileContent, one action per statement that touches   *)
(* the directory or may fail.  A writer is one call in one process.         *)

Writers == {1, 2}

NoError == [msg |-> "", name |-> <<>>]

IdleWriter ==
    [pc |-> "idle", suffixIndex |-> 0, newFile |-> <<>>, fd |-> NoFile,
     buf |-> 0, off |-> 0, ret |-> "none", err |-> NoError,
     old |-> Absent, stoppedAt |-> "idle", env |-> FALSE]

InProgress(w) == wr[w].pc \notin {"idle", "done", "stopped"}

\* (env is not a variable of the code: it records that a call of the writer
\* failed for a reason outside the directory, such as a full disk or a
\* missing permission, rather than for what another writer did to the names)

\* writeDbFile has produced the envelope buf and calls writeFileContent:
\* QFile oldFile( dbFileName ); QFile newFile( "" ); int suffixIndex = 0;
Begin(w) ==
    /\ w \in active
    /\ ~InProgress(w)
    /\ saves < MaxSaves
    /\ saves' = saves + 1
    /\ wr' = [wr EXCEPT ![w] =
                [IdleWriter EXCEPT !.pc = "check", !.buf = saves + 1,
                                   !.old = Content(dir, ino, DbFileName)]]
    /\ UNCHANGED <<dir, ino, active>>
    /\ UNCHANGED <<poolVars, dbVars, gen, main>>

\* do { newFile.setFileName( dbFileName + "_" + number( suffixIndex ) );
\*      suffixIndex++; } while( newFile.exists() );
CheckExists(w) ==
    /\ w \in active
    /\ wr[w].pc = "check"
    /\ wr[w].suffixIndex <= MaxSuffix
    /\ LET n == IndexedName(wr[w].suffixIndex) IN
         wr' = [wr EXCEPT ![w].newFile = n,
                          ![w].suffixIndex = @ + 1,
                          ![w].pc = IF Exists(dir, n) THEN "check" ELSE "open"]
    /\ UNCHANGED <<dir, ino, active, saves>>
    /\ UNCHANGED <<poolVars, dbVars, gen, main>>

\* mutant: the envelope is written in place, into dbFileName itself
OpenOk_inPlace(w) ==
    /\ w \in active
    /\ wr[w].pc = "open"
    /\ IF Exists(dir, DbFileName)
       THEN /\ ino' = [ino EXCEPT ![dir[DbFileName]] = <<>>]
            /\ wr' = [wr EXCEPT ![w].fd = dir[DbFileName], ![w].off = 0, ![w].pc = "write"]
            /\ UNCHANGED dir
       ELSE /\ ino' = Append(ino, <<>>)
            /\ dir' = [dir EXCEPT ![DbFileName] = FreshIno]
            /\ wr' = [wr EXCEPT ![w].fd = FreshIno, ![w].off = 0, ![w].pc = "write"]
    /\ UNCHANGED <<active, saves>>
    /\ UNCHANGED <<poolVars, dbVars, gen, main>>

\* newFile.open( QIODevice::WriteOnly ): creates the file, or truncates the
\* one that has appeared under the name since the existence check
OpenOk(w) ==
    /\ w \in active
    /\ wr[w].pc = "open"
    /\ LET n == wr[w].newFile IN
         IF Exists(dir, n)
         THEN /\ ino' = [ino EXCEPT ![dir[n]] = <<>>]
              /\ wr' = [wr EXCEPT ![w].fd = dir[n], ![w].off = 0, ![w].pc = "write"]
              /\ UNCHANGED dir
         ELSE /\ ino' = Append(ino, <<>>)
              /\ dir' = [dir EXCEPT ![n] = FreshIno]
              /\ wr' = [wr EXCEPT ![w].fd = FreshIno, ![w].off = 0, ![w].pc = "write"]
    /\ UNCHANGED <<active, saves>>
    /\ UNCHANGED <<poolVars, dbVars, gen, main>>

\* if( !newFile.open(...) ) { errorDescription = ...; return false; }
OpenFail(w) ==
    /\ w \in active
    /\ wr[w].pc = "open"
    /\ wr' = [wr EXCEPT ![w].err = [msg |-> "Cannot create indexed file", name |-> <<>>],
                        ![w].ret = "false", ![w].pc = "done", ![w].env = TRUE]
    /\ UNCHANGED <<dir, ino, active, saves>>
    /\ UNCHANGED <<poolVars, dbVars, gen, main>>

\* mutant: a short write is taken for a complete one
WriteChunk_short(w) ==
    /\ w \in active
    /\ wr[w].pc = "write"
    /\ wr[w].off < Chunks
    /\ ino' = [ino EXCEPT ![wr[w].fd] =
                 PutChunk(@, wr[w].off, Envelope(wr[w].buf)[wr[w].off + 1])]
    /\ wr' = [wr EXCEPT ![w].off = @ + 1, ![w].pc = "close"]
    /\ UNCHANGED <<dir, active, saves>>
    /\ UNCHANGED <<poolVars, dbVars, gen, main>>

\* newFile.write( buf ): the envelope reaches the file chunk by chunk
WriteChunk(w) ==
    /\ w \in active
    /\ wr[w].pc = "write"
    /\ wr[w].off < Chunks
    /\ ino' = [ino EXCEPT ![wr[w].fd] =
                 PutChunk(@, wr[w].off, Envelope(wr[w].buf)[wr[w].off + 1])]
    /\ wr' = [wr EXCEPT ![w].off = @ + 1,
                        ![w].pc = IF wr[w].off + 1 = Chunks THEN "close" ELSE "write"]
    /\ UNCHANGED <<dir, active, saves>>
    /\ UNCHANGED <<poolVars, dbVars, gen, main>>

\* if( newFile.write( buf ) == -1 ) { errorDescription = "Error writing ...";
WriteFail(w) ==
    /\ w \in active
    /\ wr[w].pc = "write"
    /\ wr' = [wr EXCEPT ![w].err = [msg |-> "Error writing to the file", name |-> <<>>],
                        ![w].pc = "wremove", ![w].env = TRUE]
    /\ UNCHANGED <<dir, ino, active, saves>>
    /\ UNCHANGED <<poolVars, dbVars, gen, main>>

\* mutant: the error path removes oldFile instead of newFile
RemoveTemp_wrongFile(w) ==
    /\ w \in active
    /\ wr[w].pc = "wremove"
    /\ dir' = [dir EXCEPT ![DbFileName] = NoFile]
    /\ wr' = [wr EXCEPT ![w].fd = NoFile, ![w].ret = "false", ![w].pc = "done"]
    /\ UNCHANGED <<ino, active, saves>>
    /\ UNCHANGED <<poolVars, dbVars, gen, main>>

\*   newFile.close(); newFile.remove(); return false; }
RemoveTemp(w) ==
    /\ w \in active
    /\ wr[w].pc = "wremove"
    /\ dir' = [dir EXCEPT ![wr[w].newFile] = NoFile]
    /\ wr' = [wr EXCEPT ![w].fd = NoFile, ![w].ret = "false", ![w].pc = "done"]
    /\ UNCHANGED <<ino, active, saves>>
    /\ UNCHANGED <<poolVars, dbVars, gen, main>>

\* newFile.close();
Close(w) ==
    /\ w \in active
    /\ wr[w].pc = "close"
    /\ wr' = [wr EXCEPT ![w].fd = NoFile, ![w].pc = "exists"]
    /\ UNCHANGED <<dir, ino, active, saves>>
    /\ UNCHANGED <<poolVars, dbVars, gen, main>>

\* if( oldFile.exists() && ...
OldExists(w) ==
    /\ w \in active
    /\ wr[w].pc = "exists"
    /\ wr' = [wr EXCEPT ![w].pc = IF Exists(dir, DbFileName) THEN "remove" ELSE "rename"]
    /\ UNCHANGED <<dir, ino, active, saves>>
    /\ UNCHANGED <<poolVars, dbVars, gen, main>>

\* ... !oldFile.remove() ): the unlink succeeds
RemoveOldOk(w) ==
    /\ w \in active
    /\ wr[w].pc = "remove"
    /\ Exists(dir, DbFileName)
    /\ dir' = [dir EXCEPT ![DbFileName] = NoFile]
    /\ wr' = [wr EXCEPT ![w].pc = "rename"]
    /\ UNCHANGED <<ino, active, saves>>
    /\ UNCHANGED <<poolVars, dbVars, gen, main>>

RemoveError(n) ==
    [msg |-> "Cannot remove previous version of DB file.\nNew one is saved under name",
     name |-> n]

\* ... the unlink fails (no permission, or the file is already gone)
RemoveOldFail(w) ==
    /\ w \in active
    /\ wr[w].pc = "remove"
    /\ wr' = [wr EXCEPT ![w].err = RemoveError(wr[w].newFile),
                        ![w].ret = "false", ![w].pc = "done",
                        ![w].env = Exists(dir, DbFileName)]
    /\ UNCHANGED <<dir, ino, active, saves>>
    /\ UNCHANGED <<poolVars, dbVars, gen, main>>

\* mutant: the new file is copied to dbFileName and stays under its own name
RenameOk_copy(w) ==
    /\ w \in active
    /\ wr[w].pc = "rename"
    /\ ~Exists(dir, DbFileName)
    /\ Exists(dir, wr[w].newFile)
    /\ dir' = [dir EXCEPT ![DbFileName] = dir[wr[w].newFile]]
    /\ wr' = [wr EXCEPT ![w].newFile = DbFileName, ![w].ret = "true", ![w].pc = "done"]
    /\ UNCHANGED <<ino, active, saves>>
    /\ UNCHANGED <<poolVars, dbVars, gen, main>>

\* newFile.rename( dbFileName ): QFile::rename refuses an existing target
\* and a missing source
RenameOk(w) ==
    /\ w \in active
    /\ wr[w].pc = "rename"
    /\ ~Exists(dir, DbFileName)
    /\ Exists(dir, wr[w].newFile)
    /\ dir' = [dir EXCEPT ![DbFileName] = dir[wr[w].newFile],
                          ![wr[w].newFile] = NoFile]
    /\ wr' = [wr EXCEPT ![w].newFile = DbFileName, ![w].ret = "true", ![w].pc = "done"]
    /\ UNCHANGED <<ino, active, saves>>
    /\ UNCHANGED <<poolVars, dbVars, gen, main>>

RenameError(n) ==
    [msg |-> "Cannot rename new DB file.\nIt is saved under name", name |-> n]

\* mutant: the new file is removed when the rename fails
RenameFail_dropsTemp(w) ==
    /\ w \in active
    /\ wr[w].pc = "rename"
    /\ dir' = [dir EXCEPT ![wr[w].newFile] = NoFile]
    /\ wr' = [wr EXCEPT ![w].err = RenameError(wr[w].newFile),
                        ![w].ret = "false", ![w].pc = "done",
                        ![w].env = ~Exists(dir, DbFileName) /\ Exists(dir, wr[w].newFile)]
    /\ UNCHANGED <<ino, active, saves>>
    /\ UNCHANGED <<poolVars, dbVars, gen, main>>

\* newFile.rename( dbFileName ) fails
RenameFail(w) ==
    /\ w \in active
    /\ wr[w].pc = "rename"
    /\ wr' = [wr EXCEPT ![w].err = RenameError(wr[w].newFile),
                        ![w].ret = "false", ![w].pc = "done",
                        ![w].env = ~Exists(dir, DbFileName) /\ Exists(dir, wr[w].newFile)]
    /\ UNCHANGED <<dir, ino, active, saves>>
    /\ UNCHANGED <<poolVars, dbVars, gen, main>>

\* the process stops in the middle of the call
Interrupt(w) ==
    /\ w \in active
    /\ InProgress(w)
    /\ wr' = [wr EXCEPT ![w].stoppedAt = wr[w].pc, ![w].pc = "stopped"]
    /\ UNCHANGED <<dir, ino, active, saves>>
    /\ UNCHANGED <<poolVars, dbVars, gen, main>>

\* the directory before the first save: the vault file may exist, and any of
\* the indexed names may be taken by a file left behind earlier
StaleTemp == <<Envelope(0)[1]>>

InitDir(hasDb, taken) ==
    /\ ino = [k \in 1..(MaxSuffix + 2) |-> IF k = 1 THEN Envelope(0) ELSE StaleTemp]
    /\ dir = [n \in Names |->
                IF n = DbFileName THEN (IF hasDb THEN 1 ELSE NoFile)
                ELSE IF n[3] \in taken THEN n[3] + 2 ELSE NoFile]

InitSaveVars(ws) ==
    /\ \E hasDb \in BOOLEAN, taken \in SUBSET (0..MaxSuffix) : InitDir(hasDb, taken)
    /\ wr = [w \in Writers |-> IdleWriter]
    /\ active = ws
    /\ saves = 0

NextSave ==
    \E w \in Writers :
        \/ Begin(w)
        \/ CheckExists(w)
        \/ OpenOk(w)
        \/ OpenFail(w)
        \/ WriteChunk(w)
        \/ WriteFail(w)
        \/ RemoveTemp(w)
        \/ Close(w)
        \/ OldExists(w)
        \/ RemoveOldOk(w)
        \/ RemoveOldFail(w)
        \/ RenameOk(w)
        \/ RenameFail(w)
        \/ Interrupt(w)

-----------------------------------------------------------------------------
(* StorageEngine: key derivation and the AES-256-GCM envelope *)

FILE_APPENDIX_SIZE == 28

KeyLength == 32

\* QByteArray key before any setPassword: empty
NoKey == 0

\* a key of 32 bytes PBKDF2 did not fill
JunkKey == 1

Passwords == {1, 2}

\* PKCS5_PBKDF2_HMAC over the fixed salt: one key per password
Kdf(pw) == 7 * pw + 3

KeyLen(k) == IF k = NoKey THEN 0 ELSE KeyLength

\* RAND_bytes failed
NoIV == 0

\* the IVs RAND_bytes delivers
IVs == {5}

\* the key stream byte of key k and IV iv
Pad(k, iv) == (16 * k + iv) % 256

\* EVP_EncryptUpdate / EVP_DecryptUpdate
Enc(k, iv, p) == [i \in 1..Len(p) |-> (p[i] + Pad(k, iv)) % 256]

Dec(k, iv, c) == [i \in 1..Len(c) |-> (c[i] + 256 - Pad(k, iv)) % 256]

\* the GCM tag: it binds key, IV and ciphertext
Mac(k, iv, c) == <<k, iv, c>>

\* no file under dbFileName
NoDisk == [len |-> -1, ct |-> <<>>, iv |-> 0, tag |-> <<>>]

\* the file encryptData makes of payload p: ciphertext, IV, tag
File(k, iv, p) ==
    [len |-> Len(p) + FILE_APPENDIX_SIZE, ct |-> Enc(k, iv, p), iv |-> iv,
     tag |-> Mac(k, iv, Enc(k, iv, p))]

\* mutant: EVP_DecryptFinal is not asked about the tag
DecryptData_noTag(f, k) ==
    IF KeyLen(k) # KeyLength \/ f.len <= FILE_APPENDIX_SIZE
    THEN [ok |-> FALSE, buf |-> <<>>]
    ELSE [ok |-> TRUE, buf |-> Dec(k, f.iv, f.ct)]

\* decryptData: whether it returns true, and the payload it leaves in buf
DecryptData(f, k) ==
    IF KeyLen(k) # KeyLength \/ f.len <= FILE_APPENDIX_SIZE
    THEN [ok |-> FALSE, buf |-> <<>>]
    ELSE IF f.tag # Mac(k, f.iv, f.ct) THEN [ok |-> FALSE, buf |-> <<>>]
    ELSE [ok |-> TRUE, buf |-> Dec(k, f.iv, f.ct)]

-----------------------------------------------------------------------------
(* StorageEngine::readDbFile and writeDbFile *)

\* the while( curPtr < endPtr ) loop of readDbFile
RECURSIVE ParseRows(_, _, _, _)
ParseRows(buf, curPtr, endPtr, rows) ==
    IF curPtr < endPtr
    THEN LET e == ParseRow(buf, curPtr, endPtr)
         IN  ParseRows(buf, e.ptr, endPtr, Insert(rows, e.row))
    ELSE rows

\* the outer frame check of readDbFile and the records behind it
ParseDb(buf) ==
    LET h == GetObject(buf)
    IN  IF h.ret # V_ASN1_CONSTRUCTED \/ h.tag # V_ASN1_SEQUENCE
           \/ h.xclass # V_ASN1_UNIVERSAL \/ h.hl + h.length # Len(buf)
        THEN [ok |-> FALSE, rows |-> <<>>]
        ELSE [ok |-> TRUE, rows |-> ParseRows(buf, h.hl, Len(buf), <<>>)]

\* the second loop of writeDbFile: writePtr is Len(out), endPtr is dataSize
RECURSIVE EmitRows(_, _, _)
EmitRows(rows, out, dataSize) ==
    IF rows = <<>> THEN out
    ELSE EmitRows(Tail(rows), out \o EncodeBytes(Head(rows), dataSize - Len(out)),
                  dataSize)

\* the serialising part of writeDbFile
Serialize(rows) ==
    LET sequenceInnerSize == SumOf([k \in 1..Len(rows) |-> EncodeSize(rows[k], TRUE, 0)])
        dataSize == ObjectSize(1, sequenceInnerSize, V_ASN1_SEQUENCE)
        out == EmitRows(rows,
                        PutObject(1, sequenceInnerSize, V_ASN1_SEQUENCE, V_ASN1_UNIVERSAL),
                        dataSize)
    IN  [ok |-> Len(out) = dataSize, buf |-> out]

CannotOpen == [msg |-> "Cannot open DB file: ", name |-> DbFileName]

WrongPassword == [msg |-> "Wrong password or file corruption", name |-> <<>>]

Corrupted == [msg |-> "Password DB structure is corrupted", name |-> <<>>]

\* history values
NoCall == [op |-> "none", ret |-> TRUE, opened |-> TRUE, stage |-> "idle"]

NotWritten == [ok |-> FALSE, rows |-> <<>>]

\* setPassword returning true
SetPassword(pw) ==
    /\ key' = Kdf(pw)
    /\ call' = [op |-> "setPassword", ret |-> TRUE, opened |-> TRUE,
                stage |-> call.stage]
    /\ UNCHANGED <<data, errorDescription, disk, written, rounds,
                   saveVars, poolVars, gen>>

\* setPassword returning false: PBKDF2 failed on the resized key
SetPasswordFail(k) ==
    /\ k \in (IF key = NoKey THEN {JunkKey} ELSE {key, JunkKey})
    /\ key' = k
    /\ errorDescription' = [msg |-> "Key derivation failure", name |-> <<>>]
    /\ call' = [op |-> "setPassword", ret |-> FALSE, opened |-> TRUE,
                stage |-> call.stage]
    /\ UNCHANGED <<data, disk, written, rounds, saveVars, poolVars, gen>>

\* readDbFile stopping at its first return: the file cannot be opened
ReadOpenFail ==
    /\ errorDescription' = CannotOpen
    /\ call' = [op |-> "read", ret |-> FALSE, opened |-> FALSE, stage |-> "idle"]
    /\ rounds' = <<>>
    /\ UNCHANGED <<data, key, disk, written, saveVars, poolVars, gen>>

\* readDbFile with every statement of its success path moved before the checks
ReadDb_clearsFirst ==
    /\ disk # NoDisk
    /\ LET d == DecryptData(disk, key)
           p == ParseDb(d.buf)
       IN  /\ data' = p.rows
           /\ errorDescription' = IF ~d.ok THEN WrongPassword
                                  ELSE IF ~p.ok THEN Corrupted ELSE errorDescription
           /\ call' = [op |-> "read", ret |-> d.ok /\ p.ok, opened |-> TRUE,
                       stage |-> IF d.ok /\ p.ok THEN "opened" ELSE "idle"]
           /\ rounds' = IF d.ok /\ p.ok /\ call.stage = "saved" THEN rounds ELSE <<>>
    /\ UNCHANGED <<key, disk, written, saveVars, poolVars, gen>>

\* readDbFile on a file it could open
ReadDb ==
    /\ disk # NoDisk
    /\ LET d == DecryptData(disk, key)
           p == ParseDb(d.buf)
       IN  IF ~d.ok
           THEN /\ errorDescription' = WrongPassword
                /\ call' = [op |-> "read", ret |-> FALSE, opened |-> TRUE,
                            stage |-> "idle"]
                /\ rounds' = <<>>
                /\ UNCHANGED data
           ELSE IF ~p.ok
           THEN /\ errorDescription' = Corrupted
                /\ call' = [op |-> "read", ret |-> FALSE, opened |-> TRUE,
                            stage |-> "idle"]
                /\ rounds' = <<>>
                /\ UNCHANGED data
           ELSE /\ data' = p.rows
                /\ call' = [op |-> "read", ret |-> TRUE, opened |-> TRUE,
                            stage |-> "opened"]
                /\ rounds' = IF call.stage = "saved" THEN rounds ELSE <<>>
                /\ UNCHANGED errorDescription
    /\ UNCHANGED <<key, disk, written, saveVars, poolVars, gen>>

\* how the writeFileContent call of writeDbFile ends
Outcomes == {"ok", "create", "write", "remove", "rename"}

\* what RAND_bytes and writeFileContent do in one writeDbFile: without an IV
\* writeFileContent is not called
WriteInputs == {<<NoIV, "ok">>} \cup (IVs \X Outcomes)

\* mutant: the records are released once they are stored
WriteDb_dropsData(iv, outcome) ==
    LET ser == Serialize(data)
    IN  /\ ser.ok /\ KeyLen(key) = KeyLength /\ iv # NoIV /\ outcome = "ok"
        /\ disk' = File(key, iv, ser.buf)
        /\ call' = [op |-> "write", ret |-> TRUE, opened |-> TRUE, stage |-> "idle"]
        /\ rounds' = <<>>
        /\ written' = [ok |-> TRUE, rows |-> data]
        /\ data' = <<>>
        /\ UNCHANGED <<errorDescription, key, saveVars, poolVars, gen>>

\* writeDbFile when `data` holds rows: the caller has just filled `data`, or
\* rows is `data` as it was
WriteDbOn(rows, iv, outcome) ==
    LET ser == Serialize(rows)
        file == File(key, iv, ser.buf)
        round == call.stage = "opened"
        done(ret, d, err) ==
            /\ disk' = d
            /\ errorDescription' = err
            /\ call' = [op |-> "write", ret |-> ret, opened |-> TRUE,
                        stage |-> IF ret /\ round THEN "saved" ELSE "idle"]
            /\ rounds' = IF ret /\ round
                         THEN (IF rounds = <<>> THEN <<>> ELSE <<rounds[Len(rounds)]>>)
                              \o <<ser.buf>>
                         ELSE <<>>
            /\ written' = IF ret THEN [ok |-> TRUE, rows |-> rows]
                          ELSE IF d = disk THEN written ELSE NotWritten
    IN  /\ IF ~ser.ok
           THEN done(FALSE, disk, [msg |-> "Error serializing the data", name |-> <<>>])
           ELSE IF KeyLen(key) # KeyLength \/ iv = NoIV
           THEN done(FALSE, disk, [msg |-> "Error encrypting the data", name |-> <<>>])
           ELSE CASE outcome = "ok" -> done(TRUE, file, errorDescription)
                  [] outcome = "create" ->
                       done(FALSE, disk,
                            [msg |-> "Cannot create indexed file", name |-> <<>>])
                  [] outcome = "write" ->
                       done(FALSE, disk,
                            [msg |-> "Error writing to the file", name |-> <<>>])
                  [] outcome = "remove" ->
                       /\ disk # NoDisk
                       /\ done(FALSE, disk, RemoveError(IndexedName(0)))
                  [] outcome = "rename" ->
                       done(FALSE, NoDisk, RenameError(IndexedName(0)))
        /\ data' = rows
        /\ UNCHANGED <<key, saveVars, poolVars, gen>>

\* writeDbFile
WriteDb(iv, outcome) == WriteDbOn(data, iv, outcome)

-----------------------------------------------------------------------------
(* Randomizer: the generators *)

\* no generator call
NoGen == [fn |-> "none"]

\* RAND_bytes failed
NoFill == <<>>

\* what the RAND_bytes calls of one generator call deliver, first call first;
\* calls past the end fail
Feeds == [1..MaxAttempts -> {NoFill, Fill(NumFills)}]

\* byte k of a word, k = 0 the low one
Byte(w, k) ==
    w[8 * k + 1] + 2 * w[8 * k + 2] + 4 * w[8 * k + 3] + 8 * w[8 * k + 4]
        + 16 * w[8 * k + 5] + 32 * w[8 * k + 6] + 64 * w[8 * k + 7]
        + 128 * w[8 * k + 8]

\* the number a word holds whose high byte is clear
Value(w) == Byte(w, 0) + 256 * Byte(w, 1) + 65536 * Byte(w, 2)

\* ((acc * 2^32) + w) % m for a word w: m <= 2^23
ModWord(w, m, acc) ==
    (((((((acc * 256 + Byte(w, 3)) % m) * 256 + Byte(w, 2)) % m) * 256
        + Byte(w, 1)) % m) * 256 + Byte(w, 0)) % m

\* t % m for the uint64_t t with the words hi and lo
Mod64(hi, lo, m) == ModWord(lo, m, ModWord(hi, m, 0))

\* the state of the generator's singleton: the pool, the unread bits, and
\* the number of RAND_bytes calls made so far
Here == [pool |-> pool, poolSize |-> poolSize, used |-> 0]

\* the value of an expression, worked out where it stands
The(S) == CHOOSE x \in S : TRUE

\* a word, and a pool, with every bit worked out
Word(w) == SubSeq(w, 1, WordBits)

Limbs(pl) == SubSeq([k \in 1..PoolLimbs |-> Word(pl[k])], 1, PoolLimbs)

\* randomizer->getBits( &t, count ) in state st: t is stored into only when
\* the call returns true
GetBitsOn(st, count, feed, wraps) ==
    IF count > st.poolSize
    THEN LET fresh == IF st.used < Len(feed) THEN feed[st.used + 1] ELSE NoFill
         IN  IF fresh = NoFill
             THEN [ok |-> FALSE, res |-> Zero32,
                   st |-> [st EXCEPT !.poolSize = 0, !.used = @ + 1]]
             ELSE LET r == DrawLoop(Residual(st.pool, st.poolSize),
                                    count - st.poolSize, fresh, PoolBits, wraps)
                  IN  [ok |-> TRUE, res |-> Word(r.res),
                       st |-> [pool |-> Limbs(r.pool), poolSize |-> r.poolSize,
                               used |-> st.used + 1]]
    ELSE LET r == DrawLoop(Zero32, count, st.pool, st.poolSize, wraps)
         IN  [ok |-> TRUE, res |-> Word(r.res),
              st |-> [pool |-> Limbs(r.pool), poolSize |-> r.poolSize,
                      used |-> st.used]]

\* mutant: the second word of t is never drawn
MakeNumberOn_oneDraw(st, modulo, feed, wraps, littleEndian) ==
    The({ IF ~first.ok THEN [ok |-> FALSE, ret |-> modulo, st |-> first.st]
          ELSE [ok |-> TRUE, ret |-> Mod64(Zero32, first.res, modulo),
                st |-> first.st]
          : first \in {GetBitsOn(st, WordBits, feed, wraps)} })

\* Randomizer::makeNumber( modulo ) in state st: the first draw is stored at
\* the lower address of t, which is its low word when the host is little endian
MakeNumberOn(st, modulo, feed, wraps, littleEndian) ==
    The({ IF ~first.ok THEN [ok |-> FALSE, ret |-> modulo, st |-> first.st]
          ELSE The({ IF ~second.ok
                     THEN [ok |-> FALSE, ret |-> modulo, st |-> second.st]
                     ELSE [ok |-> TRUE,
                           ret |-> IF littleEndian
                                   THEN Mod64(second.res, first.res, modulo)
                                   ELSE Mod64(first.res, second.res, modulo),
                           st |-> second.st]
                     : second \in {GetBitsOn(first.st, WordBits, feed, wraps)} })
          : first \in {GetBitsOn(st, WordBits, feed, wraps)} })

\* the pool after a generator call that ended in state st
Leave(st, feed) ==
    /\ pool' = st.pool
    /\ poolSize' = st.poolSize
    /\ filled' = IF \E k \in 1..Len(feed) : k <= st.used /\ feed[k] # NoFill
                 THEN Fill(NumFills) ELSE filled
    /\ UNCHANGED <<dst, last>>

\* uint32_t makeNumber( uint32_t modulo )
MakeNumber(modulo, feed, wraps, littleEndian) ==
    /\ gen = NoGen
    /\ \E r \in {MakeNumberOn(Here, modulo, feed, wraps, littleEndian)} :
           /\ gen' = [fn |-> "makeNumber", arg |-> modulo, ok |-> r.ok, ret |-> r.ret,
                      res |-> <<>>, blocks |-> <<>>, feed |-> feed, had |-> poolSize,
                      used |-> r.st.used, littleEndian |-> littleEndian,
                      due |-> NextBits(filled, poolSize, Fill(NumFills),
                                       2 * WordBits)]
           /\ Leave(r.st, feed)
    /\ UNCHANGED <<saveVars, dbVars, main>>

\* mutant: the digits are pushed highest first
PinBlock_highFirst(t) ==
    <<(t \div 1000) % 10, (t \div 100) % 10, (t \div 10) % 10, t % 10>>

\* the for( j ) loop of makePin: '0' + (t % 10), then t /= 10, four times
PinBlock(t) == <<t % 10, (t \div 10) % 10, (t \div 100) % 10, (t \div 1000) % 10>>

\* the for( i ) loop of makePin from block k on; blocks records what each
\* makeNumber( 10000 ) returned
RECURSIVE PinLoop(_, _, _, _, _, _, _, _)
PinLoop(st, i, length, res, blocks, feed, wraps, littleEndian) ==
    IF i < length
    THEN The({ PinLoop(r.st, i + 4, length, res \o PinBlock(r.ret),
                       Append(blocks, [ok |-> r.ok, ret |-> r.ret]),
                       feed, wraps, littleEndian)
               : r \in {MakeNumberOn(st, 10000, feed, wraps, littleEndian)} })
    ELSE [res |-> res, blocks |-> blocks, st |-> st]

\* mutant: res.resize( length ) is left out
MakePin_noResize(length, feed, wraps, littleEndian) ==
    /\ gen = NoGen
    /\ \E r \in {PinLoop(Here, 0, length, <<>>, <<>>, feed, wraps, littleEndian)} :
           /\ gen' = [fn |-> "makePin", arg |-> length,
                      ok |-> \A k \in 1..Len(r.blocks) : r.blocks[k].ok,
                      ret |-> 0, res |-> r.res, blocks |-> r.blocks,
                      feed |-> feed, had |-> poolSize, used |-> r.st.used,
                      littleEndian |-> littleEndian, due |-> <<>>]
           /\ Leave(r.st, feed)
    /\ UNCHANGED <<saveVars, dbVars, main>>

\* std::string makePin( int length ): a character is its digit, '0' + d
MakePin(length, feed, wraps, littleEndian) ==
    /\ gen = NoGen
    /\ \E r \in {PinLoop(Here, 0, length, <<>>, <<>>, feed, wraps, littleEndian)} :
           /\ gen' = [fn |-> "makePin", arg |-> length,
                      ok |-> \A k \in 1..Len(r.blocks) : r.blocks[k].ok,
                      ret |-> 0, res |-> Sub(r.res, 0, length), blocks |-> r.blocks,
                      feed |-> feed, had |-> poolSize, used |-> r.st.used,
                      littleEndian |-> littleEndian, due |-> <<>>]
           /\ Leave(r.st, feed)
    /\ UNCHANGED <<saveVars, dbVars, main>>

passwordCharSet ==
    << "A", "C", "D", "E", "F", "G", "H", "J", "K", "L", "M", "N", "P", "Q", "R", "S",
       "T", "U", "V", "W", "X", "Y", "Z", "a", "b", "c", "d", "e", "f", "g", "h", "i",
       "j", "k", "m", "n", "p", "q", "r", "s", "t", "u", "v", "w", "x", "y", "z", "0",
       "1", "2", "3", "4", "5", "6", "7", "8", "9", "#", "*", "?", ":", "+", "=", "_" >>

hexCharSet ==
    << "0", "1", "2", "3", "4", "5", "6", "7", "8", "9", "a", "b", "c", "d", "e", "f" >>

PasswordChars(t) == <<passwordCharSet[t + 1]>>

\* hexCharSet[t & 15], then hexCharSet[t >> 4]
HexChars(t) == <<hexCharSet[(t % 16) + 1], hexCharSet[(t \div 16) + 1]>>

\* the for loop of makePassword (bits = 6) and of makeHexBlock (bits = 8)
RECURSIVE CharLoop(_, _, _, _, _, _)
CharLoop(st, i, n, res, bits, feed) ==
    IF i < n
    THEN The({ IF ~r.ok THEN [ok |-> FALSE, res |-> res, st |-> r.st]
               ELSE CharLoop(r.st, i + 1, n,
                             res \o (IF bits = 6 THEN PasswordChars(Value(r.res))
                                     ELSE HexChars(Value(r.res))),
                             bits, feed)
               : r \in {GetBitsOn(st, bits, feed, FALSE)} })
    ELSE [ok |-> TRUE, res |-> res, st |-> st]

\* std::string makePassword( int length )
MakePassword(length, feed) ==
    /\ gen = NoGen
    /\ \E r \in {CharLoop(Here, 0, length, <<>>, 6, feed)} :
           /\ gen' = [fn |-> "makePassword", arg |-> length, ok |-> r.ok, ret |-> 0,
                      res |-> r.res, blocks |-> <<>>, feed |-> feed, had |-> poolSize,
                      used |-> r.st.used, littleEndian |-> TRUE, due |-> <<>>]
           /\ Leave(r.st, feed)
    /\ UNCHANGED <<saveVars, dbVars, main>>

\* std::string makeHexBlock( int bytes )
MakeHexBlock(bytes, feed) ==
    /\ gen = NoGen
    /\ \E r \in {CharLoop(Here, 0, bytes, <<>>, 8, feed)} :
           /\ gen' = [fn |-> "makeHexBlock", arg |-> bytes, ok |-> r.ok, ret |-> 0,
                      res |-> r.res, blocks |-> <<>>, feed |-> feed, had |-> poolSize,
                      used |-> r.st.used, littleEndian |-> TRUE, due |-> <<>>]
           /\ Leave(r.st, feed)
    /\ UNCHANGED <<saveVars, dbVars, main>>

\* the moduli makeNumber is called with
Modulos == {1, 2, 10, 10000, 1000003, 8388608}

\* one call of a generator, for every outcome of RAND_bytes and every build
NextGen ==
    \/ \E modulo \in Modulos, feed \in Feeds, wraps \in BOOLEAN, le \in BOOLEAN :
          MakeNumber(modulo, feed, wraps, le)
    \/ \E length \in 0..MaxPin, feed \in Feeds, wraps \in BOOLEAN, le \in BOOLEAN :
          MakePin(length, feed, wraps, le)
    \/ \E length \in 0..MaxChars, feed \in Feeds : MakePassword(length, feed)
    \/ \E bytes \in 0..MaxChars, feed \in Feeds : MakeHexBlock(bytes, feed)

-----------------------------------------------------------------------------
(* Randomizer: makeName *)

\* struct LitInfo { char value[3]; char canDup; uint32_t weight; }
Lit(value, canDup, weight) == [value |-> value, canDup |-> canDup, weight |-> weight]

vowelSet ==
    << Lit(<<"e">>, 1, 5040273), Lit(<<"a">>, 0, 3406646),
       Lit(<<"o">>, 1, 3221018), Lit(<<"i">>, 0, 3063451),
       Lit(<<"u">>, 0, 1159547), Lit(<<"y">>, 0, 886281) >>

consonantSet ==
    << Lit(<<"n">>, 1, 1965342), Lit(<<"r">>, 1, 1703266),
       Lit(<<"t">>, 0, 1674560), Lit(<<"s">>, 1, 1466326),
       Lit(<<"d">>, 1, 1221783), Lit(<<"l">>, 1, 1125424),
       Lit(<<>>, 0, 1048588), Lit(<<"t", "h">>, 0, 899191),
       Lit(<<"c">>, 1, 766989), Lit(<<"m">>, 1, 738749),
       Lit(<<"f">>, 1, 651700), Lit(<<"w">>, 0, 592582),
       Lit(<<"g">>, 1, 573031), Lit(<<"p">>, 0, 514533),
       Lit(<<"b">>, 0, 421277), Lit(<<"v">>, 0, 313281),
       Lit(<<"s", "h">>, 0, 310333), Lit(<<"h">>, 0, 263783),
       Lit(<<"c", "h">>, 0, 201716), Lit(<<"k">>, 0, 195044),
       Lit(<<"x">>, 0, 48877), Lit(<<"q", "u">>, 0, 31809),
       Lit(<<"j">>, 0, 29171), Lit(<<"z">>, 0, 19861) >>

wordEndSet ==
    << Lit(<<>>, 0, 4194304), Lit(<<"t">>, 0, 1331525),
       Lit(<<"s">>, 0, 1249585), Lit(<<"r">>, 0, 1167645),
       Lit(<<"c", "k">>, 0, 1085706), Lit(<<"y">>, 0, 1029371),
       Lit(<<"k">>, 0, 1003765), Lit(<<"x">>, 0, 921825),
       Lit(<<"n">>, 0, 839885), Lit(<<"t", "h">>, 0, 757945),
       Lit(<<"v">>, 0, 676005), Lit(<<"s", "h">>, 0, 594065),
       Lit(<<"p">>, 0, 512125), Lit(<<"b">>, 0, 430185),
       Lit(<<"l">>, 0, 348245), Lit(<<"z">>, 0, 266305),
       Lit(<<"t", "y">>, 0, 221238), Lit(<<"c", "y">>, 0, 147492) >>

\* a draw that returned false, and the NULL of getLiteral
Fail == -1

NoLiteral == Lit(<<>>, 0, 0)

\* mutant: an entry is returned for its weight and one value more
RECURSIVE ScanLiterals_inclusive(_, _, _)
ScanLiterals_inclusive(set, k, t) ==
    IF k > Len(set) THEN NoLiteral
    ELSE IF set[k].weight >= t THEN set[k]
    ELSE ScanLiterals_inclusive(set, k + 1, The({t - set[k].weight}))

\* the for loop of getLiteral from entry k on
RECURSIVE ScanLiterals(_, _, _)
ScanLiterals(set, k, t) ==
    IF k > Len(set) THEN NoLiteral
    ELSE IF set[k].weight > t THEN set[k]
    ELSE ScanLiterals(set, k + 1, The({t - set[k].weight}))

\* getLiteral( stBegin, stSizeBytes ) when getBits( &t, 24 ) stored t
GetLiteral(set, t) == IF t = Fail THEN NoLiteral ELSE ScanLiterals(set, 1, t)

\* the values the draws of 24 bits, of 4 bits and of 1 bit deliver
Draws24 == {0, 5040273, 9156701, 16777215}

Draws4 == {0, 3, 4, 12}

Draws1 == {0, 1}

\* a draw and the draw made only when it succeeds
Then(first, S) == IF first = Fail THEN {Fail} ELSE S \cup {Fail}

\* poolSize after getBits of count bits that stores t or returns false;
\* RAND_bytes is called, and can fail, only when count > poolSize
Left(size, count, t) ==
    IF size = Fail THEN Fail
    ELSE IF count > size THEN (IF t = Fail THEN 0 ELSE PoolBits - (count - size))
    ELSE size - count

CanBe(size, count, t) == t = Fail => (size # Fail /\ count > size)

\* the for loop of lines 671-677 over the draws bits from draw k on
RECURSIVE CountLoop(_, _, _, _)
CountLoop(bits, k, count, size) ==
    IF k > Len(bits) THEN [ok |-> TRUE, count |-> count, size |-> size]
    ELSE IF bits[k] = Fail
         THEN [ok |-> size < 1, count |-> count, size |-> 0, failed |-> TRUE]
    ELSE The({CountLoop(bits, k + 1, count + bits[k], s) : s \in {Left(size, 1, bits[k])}})

\* makeName( minSyllables, maxSyllables ) up to the syllable loop
NameBegin(minSyllables, maxSyllables, bits) ==
    /\ gen = NoGen
    /\ \E r \in {CountLoop(bits, 1, minSyllables, poolSize)} :
          /\ r.ok
          /\ poolSize' = r.size
          /\ gen' = [fn |-> "makeName", res |-> <<>>, i |-> 0, dups |-> <<>>,
                     extra |-> <<>>,
                     syllableCount |-> r.count,
                     ok |-> "failed" \notin DOMAIN r,
                     pc |-> IF "failed" \in DOMAIN r THEN "done"
                            ELSE IF r.count > 0 THEN "consonant" ELSE "end"]
    /\ UNCHANGED <<pool, dst, filled, last, saveVars, dbVars, main>>

\* a call that returns res at a failed draw
Gave(size) ==
    /\ gen' = [gen EXCEPT !.ok = FALSE, !.pc = "done", !.extra = <<>>]
    /\ poolSize' = size

\* mutant: the consonant is duplicated in the first syllable too
Consonant_dupAtStart(c, t, c2, t2) ==
    /\ gen # NoGen /\ gen.fn = "makeName" /\ gen.pc = "consonant"
    /\ c # Fail /\ t = 0 /\ c2 = Fail /\ t2 = Fail
    /\ LET literal == GetLiteral(consonantSet, c)
       IN  /\ gen' = [gen EXCEPT
                         !.res = @ \o literal.value \o literal.value,
                         !.dups = Append(@, [kind |-> "consonant", i |-> gen.i,
                                             at |-> Len(gen.res) + 1,
                                             size |-> Len(gen.res \o literal.value)]),
                         !.pc = "vowel"]
           /\ poolSize' = Left(Left(poolSize, 24, c), 4, t)
    /\ UNCHANGED <<pool, dst, filled, last, saveVars, dbVars, main>>

\* lines 682-700 of the syllable loop: the consonant, its duplication, and
\* the draws of the additional consonant
Consonant(c, t, c2, t2) ==
    /\ gen # NoGen /\ gen.fn = "makeName" /\ gen.pc = "consonant"
    /\ LET literal == GetLiteral(consonantSet, c)
           s1 == Left(poolSize, 24, c)
           s2 == Left(s1, 4, t)
           s3 == Left(s2, 24, c2)
           s4 == Left(s3, 4, t2)
           once == IF gen.i # 0 \/ t >= 4 THEN gen.res \o literal.value ELSE gen.res
           dup == t = 0 /\ literal.canDup # 0 /\ gen.i # 0
       IN  /\ CanBe(poolSize, 24, c)
           /\ IF literal = NoLiteral THEN t = Fail /\ c2 = Fail /\ t2 = Fail /\ Gave(s1)
              ELSE /\ CanBe(s1, 4, t)
                   /\ IF t = Fail THEN c2 = Fail /\ t2 = Fail /\ Gave(s2)
                      ELSE IF dup
                      THEN /\ c2 = Fail /\ t2 = Fail
                           /\ gen' = [gen EXCEPT
                                         !.res = once \o literal.value,
                                         !.dups = Append(@, [kind |-> "consonant",
                                                             i |-> gen.i,
                                                             at |-> Len(gen.res) + 1,
                                                             size |-> Len(once)]),
                                         !.pc = "vowel"]
                           /\ poolSize' = s2
                      ELSE IF t >= 12
                      THEN /\ CanBe(s2, 24, c2)
                           /\ IF GetLiteral(consonantSet, c2) = NoLiteral
                              THEN t2 = Fail /\ gen' = [gen EXCEPT !.res = once,
                                                                  !.ok = FALSE,
                                                                  !.pc = "done"]
                                             /\ poolSize' = s3
                              ELSE /\ CanBe(s3, 4, t2)
                                   /\ gen' = [gen EXCEPT
                                                 !.res = once,
                                                 !.extra =
                                                    IF t2 = Fail THEN @
                                                    ELSE Append(@,
                                                      [before |-> once,
                                                       value |-> GetLiteral(consonantSet,
                                                                            c2).value]),
                                                 !.ok = t2 # Fail,
                                                 !.pc = IF t2 = Fail THEN "done"
                                                        ELSE "vowel"]
                                   /\ poolSize' = s4
                      ELSE /\ c2 = Fail /\ t2 = Fail
                           /\ gen' = [gen EXCEPT !.res = once, !.pc = "vowel"]
                           /\ poolSize' = s2
    /\ UNCHANGED <<pool, dst, filled, last, saveVars, dbVars, main>>

\* lines 702-711 of the syllable loop: the vowel and its duplication, ++i
Vowel(v, t) ==
    /\ gen # NoGen /\ gen.fn = "makeName" /\ gen.pc = "vowel"
    /\ LET literal == GetLiteral(vowelSet, v)
           s1 == Left(poolSize, 24, v)
           s2 == Left(s1, 4, t)
           once == gen.res \o literal.value
           dup == t = 0 /\ literal.canDup # 0 /\ Len(once) > 1
           next == IF gen.i + 1 < gen.syllableCount THEN "consonant" ELSE "end"
       IN  /\ CanBe(poolSize, 24, v)
           /\ IF literal = NoLiteral THEN t = Fail /\ Gave(s1)
              ELSE /\ CanBe(s1, 4, t)
                   /\ IF t = Fail THEN Gave(s2)
                      ELSE /\ gen' = [gen EXCEPT
                                         !.res = IF dup THEN once \o literal.value
                                                 ELSE once,
                                         !.dups = IF dup
                                                  THEN Append(@, [kind |-> "vowel",
                                                                  i |-> gen.i,
                                                                  at |-> Len(gen.res) + 1,
                                                                  size |-> Len(once)])
                                                  ELSE @,
                                         !.extra = <<>>,
                                         !.i = @ + 1,
                                         !.pc = next]
                           /\ poolSize' = s2
    /\ UNCHANGED <<pool, dst, filled, last, saveVars, dbVars, main>>

\* lines 715-719: the word end, nothing when getLiteral returns NULL
WordEnd(w) ==
    /\ gen # NoGen /\ gen.fn = "makeName" /\ gen.pc = "end"
    /\ CanBe(poolSize, 24, w)
    /\ gen' = [gen EXCEPT !.res = @ \o GetLiteral(wordEndSet, w).value,
                          !.ok = w # Fail,
                          !.pc = "done"]
    /\ poolSize' = Left(poolSize, 24, w)
    /\ UNCHANGED <<pool, dst, filled, last, saveVars, dbVars, main>>

\* the unread bits at the call: the pool runs dry at each draw in turn
Leftovers == {0, 24, 28, 52, 56}

\* the syllable ranges makeName is called with, and the draws of its first loop
Ranges == {r \in (0..MaxSyllables) \X (0..MaxSyllables) : r[1] <= r[2]}

CountDraws(n) == UNION {[1..k -> Draws1] : k \in {n}} \cup
                 {[j \in 1..k |-> IF j < k THEN 1 ELSE Fail] : k \in 1..n}

NextName ==
    \/ \E r \in Ranges : \E bits \in CountDraws(r[2] - r[1]) :
          NameBegin(r[1], r[2], bits)
    \/ \E c \in Draws24 \cup {Fail} : \E t \in Then(c, Draws4) :
          \E c2 \in Then(t, IF t >= 12 THEN Draws24 ELSE {}) :
              \E t2 \in Then(c2, Draws4) : Consonant(c, t, c2, t2)
    \/ \E v \in Draws24 \cup {Fail} : \E t \in Then(v, Draws4) : Vowel(v, t)
    \/ \E w \in Draws24 \cup {Fail} : WordEnd(w)

-----------------------------------------------------------------------------
(* The program: main *)

\* no process
NoMain == [pc |-> "none"]

-----------------------------------------------------------------------------
(* Vault files found on disk *)

\* one DER element with a short-form length
Tlv(id, body) == <<id, Len(body)>> \o body

\* records as another writer of the format may have left them
FoundRecords ==
    << Tlv(49, Tlv(128, <<97>>)),
       Tlv(49, Tlv(128, <<98>>) \o Tlv(129, <<120>>)),
       Tlv(49, Tlv(144, <<99>>) \o Tlv(128, <<97>>)),
       Tlv(49, Tlv(128, <<97, 0, 99>>)),
       Tlv(49, Tlv(128, <<97, 0, 98>>)),
       Tlv(49, Tlv(128, <<97, 0>>)),
       Tlv(49, Tlv(128, <<97>>) \o Tlv(128, <<98>>)),
       Tlv(49, Tlv(133, <<122>>) \o Tlv(128, <<97>>)),
       Tlv(49, Tlv(133, <<122>>)),
       Tlv(49, <<>>),
       Tlv(49, Tlv(128, <<>>)),
       Tlv(49, Tlv(128, <<200>>)),
       Tlv(49, Tlv(4, <<98>>)),
       Tlv(49, Tlv(129, <<120>>) \o Tlv(160, <<98>>)),
       Tlv(49, <<128, 5, 97>>),
       <<49, 9, 128, 1, 97>>,
       Tlv(48, Tlv(128, <<97>>)),
       <<49, 129, 3, 128, 1, 97>>,
       <<49, 128, 128, 1, 97, 0, 0>>,
       Tlv(49, <<159, 16, 1, 97>>) >>

\* the records that are combined with each other
Combined == 6

\* n of the combined records in a row
RECURSIVE Rows(_)
Rows(n) ==
    IF n = 0 THEN {<<>>}
    ELSE {p \o FoundRecords[i] : p \in Rows(n - 1), i \in 1..Combined}

\* the records of a file: none, any single one, or up to n of the combined ones
FoundPayloads(n) ==
    {<<>>} \cup {FoundRecords[i] : i \in 1..Len(FoundRecords)}
           \cup UNION {Rows(k) : k \in 2..n}

\* payloads whose outer frame readDbFile refuses
BrokenFrames ==
    { <<49, 0>>, <<48, 5, 49, 0>>, <<48, 0, 49, 0>>, <<48>>, <<48, 128, 0, 0>>,
      <<112, 0>> }

\* the key the files on disk were written under
DiskKey == Kdf(1)

InitialFiles ==
    {NoDisk,
     \* iv and tag only: what is left of FILE_APPENDIX_SIZE bytes without a payload
     [File(DiskKey, 5, <<>>) EXCEPT !.len = FILE_APPENDIX_SIZE],
     \* a byte of the ciphertext flipped
     [File(DiskKey, 5, Tlv(48, <<>>)) EXCEPT !.ct = <<0, 0>>],
     \* a byte of the IV flipped, a byte of the tag flipped
     [File(DiskKey, 5, Tlv(48, <<>>)) EXCEPT !.iv = 6],
     [File(DiskKey, 5, Tlv(48, <<>>)) EXCEPT !.tag = <<DiskKey, 5, <<0, 0>>>>],
     \* an empty file, and one cut inside the tag
     [NoDisk EXCEPT !.len = 0],
     [File(DiskKey, 5, <<>>) EXCEPT !.len = FILE_APPENDIX_SIZE - 1]}
    \cup {File(DiskKey, 5, Tlv(48, p)) : p \in FoundPayloads(MaxRecords)}
    \* a record without cells before one with its cells out of role order
    \cup {File(DiskKey, 5, Tlv(48, FoundRecords[10] \o FoundRecords[3]))}
    \* a repeated role tag, an unknown tag, and a record longer than the file
    \cup {File(DiskKey, 5, Tlv(48, FoundRecords[7] \o FoundRecords[8]
                                       \o FoundRecords[16]))}
    \* a cell longer than its record, before a record and a failing header
    \cup {File(DiskKey, 5, Tlv(48, FoundRecords[15] \o FoundRecords[4]
                                       \o FoundRecords[16]))}
    \cup {File(DiskKey, 5, p) : p \in BrokenFrames}

\* no engine call yet
DbIdle ==
    /\ data = <<>>
    /\ key = NoKey
    /\ errorDescription = NoError
    /\ disk = NoDisk
    /\ call = NoCall
    /\ written = NotWritten
    /\ rounds = <<>>

NextDb ==
    \/ \E pw \in Passwords : SetPassword(pw) /\ UNCHANGED main
    \/ \E k \in {JunkKey} \cup {Kdf(pw) : pw \in Passwords} :
          SetPasswordFail(k) /\ UNCHANGED main
    \/ ReadOpenFail /\ UNCHANGED main
    \/ ReadDb /\ UNCHANGED main
    \/ \E in \in WriteInputs : WriteDb(in[1], in[2]) /\ UNCHANGED main

-----------------------------------------------------------------------------
(* MainWindow: the table, commentStorage and the comment editor.  A QString  *)
(* is the sequence of its code points; rows and columns count from 0.       *)

DATA_COLUMN_COUNT == 3

COMMENT_CELL_INDEX == DATA_COLUMN_COUNT

\* U+FFFD, which the decoder puts for a byte that is no UTF-8
ReplacementCharacter == 65533

\* UTF-8 decoding of one- and two-byte sequences; the files of the model
\* hold no longer ones
RECURSIVE Decode(_)
Decode(b) ==
    IF b = <<>> THEN <<>>
    ELSE IF b[1] < 128 THEN <<b[1]>> \o Decode(Tail(b))
    ELSE IF b[1] \in 194..223 /\ Len(b) > 1 /\ b[2] \in 128..191
    THEN <<(b[1] - 192) * 64 + (b[2] - 128)>> \o Decode(Tail(Tail(b)))
    ELSE <<ReplacementCharacter>> \o Decode(Tail(b))

\* QString::fromUtf8( cells[col] ): the QByteArray is passed as a C string,
\* so the text ends at its first NUL
fromUtf8(b) == Decode(CStr(b))

\* QString::toUtf8
RECURSIVE toUtf8(_)
toUtf8(t) ==
    IF t = <<>> THEN <<>>
    ELSE (IF t[1] < 128 THEN <<t[1]>>
          ELSE IF t[1] < 2048 THEN <<192 + (t[1] \div 64), 128 + (t[1] % 64)>>
          ELSE <<224 + (t[1] \div 4096), 128 + ((t[1] \div 64) % 64), 128 + (t[1] % 64)>>)
         \o toUtf8(Tail(t))

\* mainTable->item( row, col ) == NULL
NoItem == <<-1>>

\* a row of the table without items; id tells the rows apart in the
\* properties, 0 is the row nothing was entered in
BlankRow == [id |-> 0, items |-> [c \in 1..DATA_COLUMN_COUNT |-> NoItem]]

\* commentEdit after document()->clear() and setEnabled( false )
NoComment == [text |-> <<>>, of |-> 0, modified |-> FALSE, enabled |-> FALSE]

\* mainTable->rowCount()
rowCount(w) == Len(w.table)

\* changeCellEvent( newRow, newCol, oldRow, oldCol ) in the window w; `of` is
\* the row a comment was entered for
changeCellEvent(w, newRow, oldRow) ==
    IF newRow = oldRow THEN w
    ELSE LET kept == IF oldRow >= 0 /\ oldRow < Len(w.commentStorage)
                        /\ w.commentEdit.modified
                     THEN [w EXCEPT !.commentStorage[oldRow + 1] =
                                        [of |-> w.commentEdit.of,
                                         text |-> w.commentEdit.text],
                                    !.dataChanged = TRUE]
                     ELSE w
         IN  IF newRow >= 0 /\ newRow < Len(kept.commentStorage)
             THEN [kept EXCEPT !.commentEdit =
                                   [text |-> kept.commentStorage[newRow + 1].text,
                                    of |-> kept.commentStorage[newRow + 1].of,
                                    modified |-> FALSE, enabled |-> TRUE]]
             ELSE [kept EXCEPT !.commentEdit = NoComment]

\* mainTable->setCurrentCell( row, col ) with the currentCellChanged signal
\* connected to changeCellEvent
setCurrentCell(w, row, col) ==
    [changeCellEvent(w, row, w.currentRow) EXCEPT !.currentRow = row,
                                                  !.currentColumn = col]

\* the members of MainWindow after loadTableContent over the records rows
loadTableContent(rows) ==
    changeCellEvent(
        [table |-> [k \in 1..(Len(rows) + 1) |->
                       IF k <= Len(rows)
                       THEN [id |-> k,
                             items |-> [c \in 1..DATA_COLUMN_COUNT |->
                                           fromUtf8(rows[k][c])]]
                       ELSE BlankRow],
         commentStorage |-> [k \in 1..Len(rows) |->
                                [of |-> k,
                                 text |-> fromUtf8(rows[k][COMMENT_CELL_INDEX + 1])]],
         commentEdit |-> [NoComment EXCEPT !.enabled = TRUE],
         currentRow |-> 0, currentColumn |-> 0,
         dataChanged |-> FALSE, focus |-> TRUE, hidden |-> {},
         nextId |-> Len(rows) + 1, loaded |-> Len(rows), did |-> <<>>],
        0, -1)

\* editCellEvent( row, column ), the slot of cellChanged
editCellEvent(w, row) ==
    IF rowCount(w) - 1 = row
    THEN [w EXCEPT !.commentStorage =
                       [k \in 1..(row + 1) |->
                           IF k <= Len(@) THEN @[k]
                           ELSE [of |-> w.table[row + 1].id, text |-> <<>>]],
                   !.table = [k \in 1..(row + 2) |->
                                 IF k <= Len(@) THEN @[k] ELSE BlankRow],
                   !.commentEdit.enabled = TRUE,
                   !.dataChanged = TRUE]
    ELSE [w EXCEPT !.dataChanged = TRUE]

\* the item of a cell gets a text: setItem or setText, and cellChanged when
\* the item is new or its text differs
setText(w, row, col, text) ==
    IF w.table[row + 1].items[col + 1] = text THEN w
    ELSE editCellEvent([w EXCEPT !.table[row + 1].items[col + 1] = text,
                                 !.table[row + 1].id =
                                     IF @ = 0 THEN w.nextId ELSE @,
                                 !.nextId = IF w.table[row + 1].id = 0
                                            THEN @ + 1 ELSE @],
                       row)

\* the first part of save(): the comment being edited is put into its slot
storeComment(w) ==
    IF w.commentEdit.modified
    THEN [w EXCEPT !.commentStorage =
                       IF w.currentRow >= 0 /\ w.currentRow < Len(@)
                       THEN [@ EXCEPT ![w.currentRow + 1] =
                                [of |-> w.commentEdit.of, text |-> w.commentEdit.text]]
                       ELSE @,
                   !.commentEdit.modified = FALSE]
    ELSE w

\* the DataRow save() builds of a row of the table
dataEntry(w, row) ==
    [i \in 1..DATA_COLS_COUNT |->
        IF i <= DATA_COLUMN_COUNT
        THEN (IF w.table[row + 1].items[i] = NoItem THEN <<>>
              ELSE toUtf8(w.table[row + 1].items[i]))
        ELSE IF Len(w.commentStorage) > row THEN toUtf8(w.commentStorage[row + 1].text)
        ELSE <<>>]

\* the for loop of save() from row on: storageEngine->data.insert( dataEntry )
RECURSIVE saveRows(_, _, _)
saveRows(w, row, rows) ==
    IF row < rowCount(w) - 1
    THEN saveRows(w, row + 1, Insert(rows, dataEntry(w, row)))
    ELSE rows

QUICK_SEARCH_COLUMNS == 2

\* QString::toUpper for the letters a to z
toUpper(t) == [k \in 1..Len(t) |-> IF t[k] \in 97..122 THEN t[k] - 32 ELSE t[k]]

\* QString::contains
contains(t, k) == \E i \in 0..(Len(t) - Len(k)) : SubSeq(t, i + 1, i + Len(k)) = k

\* the row matches the key word of the quick search
Matches(w, row, keyWord) ==
    \E col \in 0..(QUICK_SEARCH_COLUMNS - 1) :
        /\ w.table[row + 1].items[col + 1] # NoItem
        /\ contains(toUpper(w.table[row + 1].items[col + 1]), toUpper(keyWord))

\* filterTable( keyWord ): every row but the last is hidden unless it
\* matches, and the first visible row, or else the last row, becomes current
filterTable(w, keyWord) ==
    LET maxRaws == rowCount(w)
        visible == {row \in 0..(maxRaws - 2) : Matches(w, row, keyWord)}
        firstVisible == IF visible = {} THEN -1
                        ELSE CHOOSE row \in visible : \A r \in visible : row <= r
    IN  setCurrentCell([w EXCEPT !.hidden = (0..(maxRaws - 2)) \ visible],
                       (maxRaws + firstVisible) % maxRaws, 0)

\* v without its element at index i (from 0), as QVector::remove( i ) and the
\* row list of the table model leave it
Without(v, i) == [k \in 1..(Len(v) - 1) |-> IF k <= i THEN v[k] ELSE v[k + 1]]

\* the rows the current index may move to when row is about to be removed:
\* the view, in single selection mode, takes the next row that is not
\* hidden; the selection model by itself would take the row above
NextCurrent(w, row) ==
    LET below == {k \in (row + 1)..(rowCount(w) - 1) : k \notin w.hidden}
    IN  (IF below = {} THEN {} ELSE {CHOOSE k \in below : \A m \in below : k <= m})
        \cup (IF row > 0 THEN {row - 1} ELSE {})

\* mainTable->model()->removeRow( row ): before the row goes, the current
\* index moves to newRow and currentCellChanged reaches changeCellEvent; then
\* the rows below move up by one
removeRow(w, row, newRow) ==
    LET moved == [changeCellEvent(w, newRow, row) EXCEPT !.currentRow = newRow]
        up(k) == IF k > row THEN k - 1 ELSE k
    IN  [moved EXCEPT !.table = Without(@, row),
                      !.currentRow = up(@),
                      !.hidden = {up(k) : k \in @ \ {row}}]

\* mutant: the last comment is removed with the row
deleteRow_removesLast(w, option, newRow) ==
    LET row == w.currentRow
    IN  IF ~w.focus \/ row < 0 \/ row >= rowCount(w) - 1 \/ option # "Yes"
        THEN [w EXCEPT !.did = <<>>]
        ELSE [removeRow(w, row, newRow) EXCEPT
                 !.commentStorage = Without(@, Len(@) - 1),
                 !.did = <<"deleteRow", row, rowCount(w)>>]

\* deleteRow(): nothing without the focus or on the last row; after the
\* question is answered Yes, removeRow and commentStorage.remove( row ).
\* did tells the properties what the slot has done: the row and the number
\* of rows there were
deleteRow(w, option, newRow) ==
    LET row == w.currentRow
    IN  IF ~w.focus \/ row < 0 \/ row >= rowCount(w) - 1 \/ option # "Yes"
        THEN [w EXCEPT !.did = <<>>]
        ELSE [removeRow(w, row, newRow) EXCEPT
                 !.commentStorage = IF row < Len(@) THEN Without(@, row) ELSE @,
                 !.did = <<"deleteRow", row, rowCount(w)>>]

\* randomizeCell() with the generator giving randomized: setItem for a cell
\* without an item, setText for one with
randomizeCell(w, randomized) ==
    LET row == w.currentRow
    IN  IF ~w.focus \/ row < 0 \/ row >= rowCount(w) - 1
        THEN [w EXCEPT !.did = <<>>]
        ELSE [setText(w, row, w.currentColumn, randomized) EXCEPT
                 !.did = <<"randomizeCell", row, rowCount(w)>>]

-----------------------------------------------------------------------------
(* The program: the steps of main *)

helpKeywords == {"help", "-h", "-help", "--help", "-?", "/?", "\\?"}

\* identifyCommand( cmd ): the AppCommand bits as a set; CMD_NOTHING is {}
identifyCommand(cmd) ==
    IF cmd = "open" THEN {"CMD_OPEN", "CMD_EDIT"}
    ELSE IF cmd = "new" THEN {"CMD_NEWPASS", "CMD_EDIT"}
    ELSE IF cmd = "chpass" THEN {"CMD_OPEN", "CMD_NEWPASS"}
    ELSE IF cmd \in helpKeywords THEN {"CMD_HELP"}
    ELSE {}

\* mutant: a file that does not exist is taken as "new"
ParseArgs_missingIsNew(argv, exists) ==
    IF Len(argv) = 1 /\ identifyCommand(argv[1]) = {}
    THEN [done |-> FALSE, code |-> 0, help |-> FALSE,
          cmd |-> IF exists THEN identifyCommand("open") ELSE identifyCommand("new")]
    ELSE [done |-> TRUE, code |-> 1, help |-> TRUE, cmd |-> {}]

\* 1. Parse CLI arguments: argv is argv[1..argc-1]; whether main returns
\* here, with which code, whether help() was called, and appCommand
ParseArgs(argv, exists) ==
    IF Len(argv) = 0
    THEN [done |-> FALSE, code |-> 0, help |-> FALSE,
          cmd |-> {"CMD_FILEDLG", "CMD_NEWPASS", "CMD_EDIT"}]
    ELSE LET appCommand == identifyCommand(argv[1])
         IN  IF "CMD_HELP" \in appCommand
             THEN [done |-> TRUE, code |-> 0, help |-> TRUE, cmd |-> appCommand]
             ELSE IF appCommand # {}
             THEN [done |-> FALSE, code |-> 0, help |-> FALSE,
                   cmd |-> IF Len(argv) > 1 THEN appCommand
                           ELSE appCommand \cup {"CMD_FILEDLG"}]
             ELSE IF Len(argv) = 1 /\ exists
             THEN [done |-> FALSE, code |-> 0, help |-> FALSE,
                   cmd |-> {"CMD_OPEN", "CMD_EDIT"}]
             ELSE [done |-> TRUE, code |-> 1, help |-> TRUE, cmd |-> appCommand]

\* where main goes on after the new password, after the load, after the file
\* dialog and after the arguments: the tests of lines 256, 253, 250 and 240
AfterNewPass(cmd) == IF "CMD_EDIT" \in cmd THEN "edit" ELSE "write"

AfterLoad(cmd) == IF "CMD_NEWPASS" \in cmd THEN "newpass" ELSE AfterNewPass(cmd)

AfterDialog(cmd) == IF "CMD_OPEN" \in cmd THEN "open" ELSE AfterLoad(cmd)

AfterArgs(cmd) == IF "CMD_FILEDLG" \in cmd THEN "fileDialog" ELSE AfterDialog(cmd)

\* the command lines
Argvs ==
    { <<>>, <<"db">>, <<"db", "x">>, <<"open", "db">>, <<"open">>, <<"new", "db">>,
      <<"chpass", "db">>, <<"chpass">>, <<"--help">>, <<"-h", "db">> }

\* the program is started: lines 190-234, and the engine of line 247
Start(argv) ==
    /\ main = NoMain
    /\ LET p == ParseArgs(argv, disk # NoDisk)
       IN  main' = [pc |-> IF p.done THEN "exit" ELSE AfterArgs(p.cmd),
                    argv |-> argv, cmd |-> p.cmd, code |-> p.code, help |-> p.help,
                    window |-> FALSE, log |-> <<>>, found |-> disk, read |-> <<>>]
    /\ UNCHANGED <<dbVars, saveVars, poolVars, gen>>

\* main goes on at pc after the events ev
GoOn(pc, ev) == [main EXCEPT !.pc = pc, !.log = @ \o ev]

\* main returns code after the events ev
Return(code, ev) == [main EXCEPT !.pc = "exit", !.code = code, !.log = @ \o ev]

\* fileDialog( &fileName, newOne ): an ExistingFile dialog accepts only a
\* file that exists
FileDialog(accepted) ==
    /\ main.pc = "fileDialog"
    /\ (accepted /\ "CMD_OPEN" \in main.cmd) => disk # NoDisk
    /\ main' = IF accepted THEN GoOn(AfterDialog(main.cmd), <<"fileDialog">>)
               ELSE Return(1, <<"fileDialog">>)
    /\ UNCHANGED <<dbVars, saveVars, poolVars, gen>>

\* loadDataFile: the password dialog is cancelled
LoadCancel ==
    /\ main.pc = "open"
    /\ main' = Return(1, <<"password">>)
    /\ UNCHANGED <<dbVars, saveVars, poolVars, gen>>

\* loadDataFile: storage->setPassword( password )
LoadSetPassword(pw) ==
    /\ main.pc = "open"
    /\ SetPassword(pw)
    /\ main' = GoOn("read", <<"password", "setPassword">>)

LoadSetPasswordFail(k) ==
    /\ main.pc = "open"
    /\ SetPasswordFail(k)
    /\ main' = Return(1, <<"password", "setPassword", "errorDialog">>)

\* loadDataFile: storage->readDbFile()
LoadRead ==
    /\ main.pc = "read"
    /\ ReadDb \/ ReadOpenFail
    /\ main' = IF call'.ret
               THEN [GoOn(AfterLoad(main.cmd), <<"read">>) EXCEPT !.read = data']
               ELSE Return(1, <<"read", "errorDialog">>)

\* the prompts of askSetNewPassword: rounds whose entries differ, then one more
RECURSIVE Prompts(_)
Prompts(mismatches) ==
    IF mismatches = 0 THEN <<>> ELSE <<"new", "again">> \o Prompts(mismatches - 1)

\* askSetNewPassword: a dialog is cancelled, the first or the second of a round
AskCancel(mismatches, second) ==
    /\ main.pc = "newpass"
    /\ main' = Return(1, Prompts(mismatches) \o
                         (IF second THEN <<"new", "again">> ELSE <<"new">>))
    /\ UNCHANGED <<dbVars, saveVars, poolVars, gen>>

\* askSetNewPassword: both entries are pw and storage->setPassword( pass1 )
AskSetPassword(mismatches, pw) ==
    /\ main.pc = "newpass"
    /\ SetPassword(pw)
    /\ main' = GoOn(AfterNewPass(main.cmd),
                    Prompts(mismatches + 1) \o <<"setPassword">>)

AskSetPasswordFail(mismatches, k) ==
    /\ main.pc = "newpass"
    /\ SetPasswordFail(k)
    /\ main' = Return(1, Prompts(mismatches + 1) \o <<"setPassword", "errorDialog">>)

\* MainWindow window( appName, &storage ); window.show(); app.exec() begins
OpenWindow ==
    /\ main.pc = "edit"
    /\ main' = [GoOn("window", <<"window">>) EXCEPT !.window = TRUE]
                @@ loadTableContent(data) @@ [saves |-> 0]
    /\ data' = <<>>
    /\ UNCHANGED <<key, errorDescription, disk, call, written, rounds,
                   saveVars, poolVars, gen>>

\* mutant: the result of writeDbFile is not looked at
Save_ignoresResult(iv, outcome) ==
    /\ main.pc = "write"
    /\ WriteDb(iv, outcome)
    /\ main' = Return(0, <<"write">>)

\* no main window: storage.writeDbFile(), lines 278-288
Save(iv, outcome) ==
    /\ main.pc = "write"
    /\ WriteDb(iv, outcome)
    /\ main' = IF call'.ret THEN Return(0, <<"write">>)
               ELSE Return(1, <<"write", "errorDialog">>)

\* the file named on the command line: none, a vault of two records stored
\* under password 1, and one with its ciphertext changed
MainFiles ==
    {NoDisk,
     File(DiskKey, 5, Tlv(48, FoundRecords[2] \o FoundRecords[1])),
     [File(DiskKey, 5, Tlv(48, <<>>)) EXCEPT !.ct = <<0, 0>>]}

\* the window is closed and app.exec() returns
Closed(w) == [w EXCEPT !.pc = "exit", !.code = 0]

\* save() in the window w, which has stored its comment: writeDbFile, and
\* dataChanged = false when it returns true
save(w, iv, outcome) ==
    /\ w.saves < MaxEditorSaves
    /\ WriteDbOn(saveRows(w, 0, <<>>), iv, outcome)
    /\ main' = IF call'.ret
               THEN Closed([w EXCEPT !.dataChanged = FALSE, !.saves = @ + 1])
               ELSE [w EXCEPT !.saves = @ + 1]

\* closeButtonEvent: the Apply button, save() and close() when it succeeds
Apply(iv, outcome) ==
    /\ main.pc = "window"
    /\ save(storeComment(main), iv, outcome)

\* closeButtonEvent: the Discard button
Discard ==
    /\ main.pc = "window"
    /\ main' = Closed([main EXCEPT !.commentEdit.modified = FALSE,
                                   !.dataChanged = FALSE])
    /\ UNCHANGED <<dbVars, saveVars, poolVars, gen>>

\* closeEvent with nothing pending, and with the Yes | No | Cancel message
\* answered No or Cancel
CloseEvent(option) ==
    /\ main.pc = "window"
    /\ IF main.dataChanged \/ main.commentEdit.modified
       THEN option \in {"No", "Cancel"}
       ELSE option = "none"
    /\ main' = IF option = "Cancel" THEN main ELSE Closed(main)
    /\ UNCHANGED <<dbVars, saveVars, poolVars, gen>>

\* closeEvent with pending changes and the message answered Yes
CloseEventSave(iv, outcome) ==
    /\ main.pc = "window"
    /\ main.dataChanged \/ main.commentEdit.modified
    /\ save(storeComment(main), iv, outcome)

\* the user enters a text into the comment editor
TypeComment(text) ==
    /\ main.pc = "window"
    /\ main.commentEdit.enabled
    /\ main.commentEdit.text # text
    /\ main' = [main EXCEPT !.commentEdit.text = text,
                            !.commentEdit.of =
                                IF main.currentRow >= 0
                                THEN main.table[main.currentRow + 1].id ELSE 0,
                            !.commentEdit.modified = TRUE,
                            !.focus = FALSE,
                            !.did = <<>>]
    /\ UNCHANGED <<dbVars, saveVars, poolVars, gen>>

\* the user clicks a cell of a row that is shown
SelectCell(row, col) ==
    /\ main.pc = "window"
    /\ row \in 0..(rowCount(main) - 1) /\ row \notin main.hidden
    /\ main' = [setCurrentCell(main, row, col) EXCEPT !.focus = TRUE, !.did = <<>>]
    /\ UNCHANGED <<dbVars, saveVars, poolVars, gen>>

\* the user edits the current cell and the delegate sets the text of its item
EditCell(text) ==
    /\ main.pc = "window"
    /\ main.currentRow \in 0..(rowCount(main) - 1)
    /\ main.currentRow = rowCount(main) - 1 =>
          rowCount(main) < MaxTableRows /\ main.nextId <= main.loaded + MaxEntered
    /\ main' = [setText(main, main.currentRow, main.currentColumn, text)
                   EXCEPT !.focus = TRUE, !.did = <<>>]
    /\ UNCHANGED <<dbVars, saveVars, poolVars, gen>>

\* the "del" shortcut or "Delete row" of the context menu, and the answer
\* to the question
DeleteRow(option) ==
    /\ main.pc = "window"
    /\ \E newRow \in (IF main.currentRow \in 0..(rowCount(main) - 2)
                       THEN NextCurrent(main, main.currentRow) ELSE {0}) :
          main' = deleteRow(main, option, newRow)
    /\ UNCHANGED <<dbVars, saveVars, poolVars, gen>>

\* the "Ctrl+R" shortcut or an entry of the context menu, and what the
\* generator gives
RandomizeCell(randomized) ==
    /\ main.pc = "window"
    /\ main' = randomizeCell(main, randomized)
    /\ UNCHANGED <<dbVars, saveVars, poolVars, gen>>

\* the user edits the text of the search bar
FilterTable(keyWord) ==
    /\ main.pc = "window"
    /\ main' = [filterTable(main, keyWord) EXCEPT !.focus = FALSE, !.did = <<>>]
    /\ UNCHANGED <<dbVars, saveVars, poolVars, gen>>

\* the columns the user works in: the service name and the password
Columns == {0, 2}

\* the texts of the editor's inputs: "a" for a cell, "z" from a generator,
\* "d" for a comment, and the key words of the search
CellTexts == {<<97>>}

RandomizedTexts == {<<122>>}

KeyWords == {<<>>, <<98>>}

NextEdit ==
    \/ \E row \in 0..(MaxTableRows - 1), col \in Columns : SelectCell(row, col)
    \/ \E text \in CellTexts : EditCell(text)
    \/ TypeComment(<<100>>)
    \/ \E option \in {"Yes", "Cancel"} : DeleteRow(option)
    \/ \E randomized \in RandomizedTexts : RandomizeCell(randomized)
    \/ \E keyWord \in KeyWords : FilterTable(keyWord)

NextMain ==
    \/ \E argv \in Argvs : Start(argv)
    \/ \E accepted \in BOOLEAN : FileDialog(accepted)
    \/ LoadCancel
    \/ \E pw \in Passwords : LoadSetPassword(pw)
    \/ LoadSetPasswordFail(JunkKey)
    \/ LoadRead
    \/ \E m \in 0..MaxMismatches, second \in BOOLEAN : AskCancel(m, second)
    \/ \E m \in 0..MaxMismatches, pw \in Passwords : AskSetPassword(m, pw)
    \/ \E m \in 0..MaxMismatches, k \in {key, JunkKey} : AskSetPasswordFail(m, k)
    \/ OpenWindow
    \/ \E in \in WriteInputs : Save(in[1], in[2])
    \/ \E in \in WriteInputs : Apply(in[1], in[2])
    \/ Discard
    \/ \E option \in {"none", "No", "Cancel"} : CloseEvent(option)
    \/ \E in \in WriteInputs : CloseEventSave(in[1], in[2])
    \/ TypeComment(<<99>>)

-----------------------------------------------------------------------------
(* Specifications *)

\* no save is running
SavesIdle ==
    /\ dir = [n \in Names |-> NoFile]
    /\ ino = <<>>
    /\ wr = [w \in Writers |-> IdleWriter]
    /\ active = {}
    /\ saves = 0

\* no generator has been called, no process started
AppIdle == gen = NoGen /\ main = NoMain

InitSave == InitSaveVars({1}) /\ PoolIdle /\ DbIdle /\ AppIdle

InitRace == InitSaveVars({1, 2}) /\ PoolIdle /\ DbIdle /\ AppIdle

InitPool == InitPoolVars /\ SavesIdle /\ DbIdle /\ AppIdle

InitDb ==
    /\ disk \in InitialFiles
    /\ data = <<>>
    /\ key = NoKey
    /\ errorDescription = NoError
    /\ call = NoCall
    /\ written = NotWritten
    /\ rounds = <<>>
    /\ SavesIdle
    /\ PoolIdle
    /\ AppIdle

\* one process saving, again and again
SpecSave == InitSave /\ [][NextSave]_vars

\* two processes saving to the same dbFileName
SpecRace == InitRace /\ [][NextSave]_vars

\* a call of getBits in every state earlier calls can leave the pool in
SpecPool == InitPool /\ [][NextPool]_vars

\* the calls of one engine after another over the vault file
SpecDb == InitDb /\ [][NextDb]_vars

InitGen == InitPoolVars /\ SavesIdle /\ DbIdle /\ AppIdle

\* a generator call in every state earlier calls can leave the pool in
SpecGen == InitGen /\ [][NextGen]_vars

\* makeName is called with any number of unread bits left by earlier calls
InitName ==
    /\ pool = Fill(1)
    /\ poolSize \in Leftovers
    /\ dst = Zero32
    /\ filled = Fill(1)
    /\ last = NoDraw
    /\ SavesIdle /\ DbIdle /\ AppIdle

\* one call of makeName, draw by draw
SpecName == InitName /\ [][NextName]_vars

\* the program is started on a command line, with a file or none on disk
InitMain ==
    /\ disk \in MainFiles
    /\ data = <<>>
    /\ key = NoKey
    /\ errorDescription = NoError
    /\ call = NoCall
    /\ written = NotWritten
    /\ rounds = <<>>
    /\ SavesIdle
    /\ PoolIdle
    /\ AppIdle

\* one run of the program
SpecMain == InitMain /\ [][NextMain]_vars

\* a caller of the engine other than main
Direct == [pc |-> "engine"]

\* the engine is used by the program, or called directly in any order
InitVault ==
    /\ disk \in MainFiles
    /\ data = <<>>
    /\ key = NoKey
    /\ errorDescription = NoError
    /\ call = NoCall
    /\ written = NotWritten
    /\ rounds = <<>>
    /\ SavesIdle
    /\ PoolIdle
    /\ gen = NoGen
    /\ main \in {NoMain, Direct}

NextVault == NextMain \/ (main = Direct /\ NextDb)

SpecVault == InitVault /\ [][NextVault]_vars

\* the records the editor is opened on: none, one, and two
EditorRecords ==
    {ParseDb(Tlv(48, p)).rows :
        p \in {<<>>, FoundRecords[3], FoundRecords[2] \o FoundRecords[3]}}

\* the main window after its construction
InitEdit ==
    /\ \E rows \in EditorRecords :
          main = [pc |-> "window"] @@ loadTableContent(rows)
    /\ DbIdle
    /\ SavesIdle
    /\ PoolIdle
    /\ gen = NoGen

\* the user at the main window
SpecEdit == InitEdit /\ [][NextEdit]_vars

-----------------------------------------------------------------------------
(* Properties of the file replacement *)

Db == Content(dir, ino, DbFileName)

New(w) == Envelope(wr[w].buf)

\* the save of writer w replaces an existing vault file
OverExisting(w) == w \in active /\ wr[w].pc # "idle" /\ wr[w].old # Absent

\* dbFileName is gone and the complete new envelope sits under the indexed name
OnlyUnderIndexedName(w) ==
    /\ Db = Absent
    /\ wr[w].newFile # <<>>
    /\ Content(dir, ino, wr[w].newFile) = New(w)

\* C1 as stated: at every step of a save over an existing vault file a reader
\* of dbFileName gets the complete old contents or the complete new contents.
C1_ReaderSeesOldOrNew ==
    \A w \in Writers : OverExisting(w) => Db \in {wr[w].old, New(w)}

\* C1 as amended: at every step of a save over an existing vault file a reader of
\* dbFileName gets the complete old contents, or the complete new contents, or
\* no file at all while the complete new contents sit under the indexed name;
\* never a partial file.
C1_ReaderSeesOldNewOrNoFile ==
    \A w \in Writers :
        OverExisting(w) => (Db \in {wr[w].old, New(w)} \/ OnlyUnderIndexedName(w))

\* C1: the old file has been unlinked and the new one is not renamed yet
C1_Witness ==
    \E w \in Writers : OverExisting(w) /\ wr[w].pc = "rename" /\ Db = Absent

\* the call stopped after newFile was created and before the rename completed
StoppedBeforeRename(w) ==
    /\ OverExisting(w)
    /\ wr[w].pc = "stopped"
    /\ wr[w].stoppedAt \in {"write", "wremove", "close", "exists", "remove", "rename"}

\* C2 as stated: a save interrupted between the creation of the temp file and
\* the completion of the rename leaves the old contents under dbFileName.
C2_InterruptKeepsOld ==
    \A w \in Writers : StoppedBeforeRename(w) => Db = wr[w].old

\* C2 as amended: a save interrupted between the creation of the temp file and
\* the completion of the rename leaves the old contents under dbFileName, unless
\* it stopped after the old file was unlinked: then dbFileName does not exist
\* and the complete new envelope is under the indexed name.
C2_InterruptKeepsOldOrIndexedNew ==
    \A w \in Writers :
        StoppedBeforeRename(w) => (Db = wr[w].old \/ OnlyUnderIndexedName(w))

\* C2: the call was interrupted between the unlink and the rename
C2_Witness ==
    \E w \in Writers : StoppedBeforeRename(w) /\ wr[w].stoppedAt = "rename" /\ Db = Absent

Returned(w, r) == w \in active /\ wr[w].pc = "done" /\ wr[w].ret = r

\* C3 as stated: when the save returns true, dbFileName holds exactly the
\* envelope just written and no file dbFileName_<i> remains.
C3_NoIndexedFileRemains ==
    \A w \in Writers :
        Returned(w, "true") =>
            /\ Db = New(w)
            /\ \A i \in 0..MaxSuffix : ~Exists(dir, IndexedName(i))

\* C3 as amended: when the save returns true, dbFileName holds exactly the
\* envelope just written and the indexed name this save wrote to no longer
\* exists; the indexed names below it, which the save found taken, still do.
C3_OwnIndexedFileGone ==
    \A w \in Writers :
        Returned(w, "true") =>
            /\ Db = New(w)
            /\ ~Exists(dir, IndexedName(wr[w].suffixIndex - 1))
            /\ \A i \in 0..(wr[w].suffixIndex - 2) : Exists(dir, IndexedName(i))

\* C3: a save returned true next to an indexed file left behind earlier
C3_Witness ==
    \E w \in Writers :
        Returned(w, "true") /\ \E i \in 0..MaxSuffix : Exists(dir, IndexedName(i))

\* C4: two saves that hold a temp file at the same time hold different names.
C4_DistinctTempNames ==
    \A v, w \in active :
        (v # w /\ wr[v].fd # NoFile /\ wr[w].fd # NoFile) => wr[v].newFile # wr[w].newFile

\* the step unlinks dbFileName
UnlinksDb == Exists(dir, DbFileName) /\ ~Exists(dir', DbFileName)

RemoveOnlyAfterStored ==
    UnlinksDb =>
        \E w \in Writers :
            /\ wr[w].pc = "remove"
            /\ wr[w].fd = NoFile
            /\ Content(dir, ino, wr[w].newFile) = New(w)

WriteErrorKeepsDb ==
    \A w \in Writers :
        (Returned(w, "false") /\ wr[w].err.msg = "Error writing to the file") =>
            /\ ~Exists(dir, wr[w].newFile)
            /\ Db = wr[w].old

\* C9: dbFileName is unlinked only by a call whose new file is completely
\* written under the indexed name and closed; and a call that returns the write
\* error has unlinked its temp file and left dbFileName as it was.
C9_RemoveAfterStored == [][RemoveOnlyAfterStored]_vars /\ []WriteErrorKeepsDb

\* C9: a call failed with the write error over an existing vault file
C9_Witness ==
    \E w \in Writers :
        /\ Returned(w, "false") /\ wr[w].err.msg = "Error writing to the file"
        /\ wr[w].old # Absent /\ saves > 1

\* the call returned false after the close, at the removal or at the rename
FailedAfterClose(w) ==
    /\ Returned(w, "false")
    /\ wr[w].err.msg \in {RemoveError(<<>>).msg, RenameError(<<>>).msg}

\* C17: when writeFileContent returns false because the removal of the old
\* file or the rename failed, the file it wrote is still there under its
\* indexed name, closed and holding the complete new envelope, and the error
\* message names that file.
C17_FailedReplaceKeepsTemp ==
    \A w \in Writers :
        FailedAfterClose(w) =>
            /\ wr[w].newFile \in {IndexedName(i) : i \in 0..MaxSuffix}
            /\ Content(dir, ino, wr[w].newFile) = New(w)
            /\ wr[w].fd = NoFile
            /\ wr[w].err.name = wr[w].newFile

\* C17: a rename that failed after the old file was removed, and a removal
\* that failed
C17_Witness ==
    \E w \in Writers :
        /\ FailedAfterClose(w)
        /\ wr[w].err.msg = RenameError(<<>>).msg
        /\ wr[w].old # Absent /\ Db = Absent

\* two saves to the same path have both returned, and no step of either
\* failed for a reason from outside the directory
BothReturned ==
    /\ saves = 2
    /\ \A w \in Writers : w \in active /\ wr[w].pc = "done" /\ ~wr[w].env

\* C27: for two saves to the same path interleaved arbitrarily, once both
\* have returned the destination exists and holds the complete envelope of
\* one of the two saves: it is never absent and never a mixture of the two
\* writers' bytes.
C27_DestinationIsOneSave ==
    BothReturned => /\ Exists(dir, DbFileName)
                    /\ \E w \in Writers : Db = New(w)

\* C27: both saves have returned and the destination is absent: the second
\* writer unlinked what the first had renamed, and found its own temp gone
C27_Witness ==
    /\ BothReturned /\ ~Exists(dir, DbFileName)
    /\ \E a, b \in Writers :
          /\ Returned(a, "true") /\ Returned(b, "false")
          /\ wr[a].suffixIndex = wr[b].suffixIndex
          /\ wr[b].err = RenameError(wr[b].newFile)

\* both saves have returned and the destination holds chunks of both
C27_WitnessMixture ==
    /\ BothReturned /\ Exists(dir, DbFileName)
    /\ \A w \in Writers : \E k \in 1..Chunks : Db[k] = New(w)[k]

-----------------------------------------------------------------------------
(* Properties of the entropy pool *)

Drawn == last.count > 0 /\ last.ok

\* the value stored is the due stream bits, first bit highest, and nothing above
ResultIsStream ==
    Drawn =>
        \A i \in 0..(WordBits - 1) :
            dst[i + 1] = IF i < last.count THEN last.due[last.count - i] ELSE 0

\* the unread region still holds the bits RAND_bytes delivered
UnreadIntact ==
    \A f \in 0..(poolSize - 1) : FlatBit(pool, f) = FlatBit(filled, f)

\* the bits handed out are exactly the bits the counter has passed
CounterFollows ==
    Drawn =>
        poolSize = IF last.refill THEN PoolBits - (last.count - last.had)
                   ELSE last.had - last.count

\* in the limb being consumed the consumed bits are masked out
ConsumedMasked ==
    poolSize % WordBits # 0 =>
        \A i \in (poolSize % WordBits)..(WordBits - 1) :
            pool[((poolSize - 1) \div WordBits) + 1][i + 1] = 0

\* C10: a successful getBits(n), 1 <= n <= 32, in any pool state stores a value
\* below 2^n whose n bits are the next n bits of the CSPRNG stream (read from
\* the high end of the unread region, the residual old bits above the fresh
\* ones when the call refills), and leaves the rest of the stream unread and
\* intact with the consumed bits of the current limb masked out.
C10_BitsAreStreamPrefix ==
    ResultIsStream /\ UnreadIntact /\ CounterFollows /\ ConsumedMasked

\* C10: a draw that straddles a refill with residual bits, some of them set
C10_Witness ==
    /\ Drawn /\ last.refill /\ last.had > 0
    /\ \E j \in 1..last.had : last.due[j] = 1
    /\ \E j \in (last.had + 1)..last.count : last.due[j] = 0

\* getBits has returned false
RefillFailed == last.count > 0 /\ ~last.ok

\* C25: after any sequence of getBits(n) calls, 1 <= n <= 32, poolSize is in
\* 0..256; a successful draw leaves poolSize - n when n <= poolSize and
\* 256 - (n - poolSize) otherwise; in the limb being consumed all bits above
\* the unread region are zero; a failed refill leaves poolSize = 0 and the
\* destination unwritten, and a draw on an empty pool goes through a refill.
C25_PoolCounterInvariant ==
    /\ [](poolSize \in 0..PoolBits)
    /\ [](Drawn => poolSize = IF last.count <= last.had THEN last.had - last.count
                              ELSE PoolBits - (last.count - last.had))
    /\ []ConsumedMasked
    /\ [][RefillFailed' => (poolSize' = 0 /\ dst' = dst)]_vars
    /\ [][(poolSize = 0 /\ last'.count > 0) => last'.refill]_vars

\* C25: RAND_bytes failed in a draw of more bits than were unread
C25_Witness == RefillFailed /\ last.had > 0 /\ poolSize = 0

-----------------------------------------------------------------------------
(* Properties of the vault engine *)

ReadFailed == call.op = "read" /\ ~call.ret

ReadOk == call.op = "read" /\ call.ret

\* the message of the first check of readDbFile that fails on the file and key
FailureMessage ==
    IF ~call.opened THEN CannotOpen
    ELSE IF ~DecryptData(disk, key).ok THEN WrongPassword
    ELSE Corrupted

\* C5: a readDbFile that returns false leaves `data` as it was and getError()
\* returns the message of the failure; `data` changes only in a readDbFile
\* that returns true.
C5_FailedReadKeepsData ==
    /\ [](ReadFailed => errorDescription = FailureMessage)
    /\ [][ReadFailed' => data' = data]_vars
    /\ [][data' # data => ReadOk']_vars

\* records are in memory and a read under another password has failed
C5_Witness ==
    /\ ReadFailed
    /\ data # <<>>
    /\ errorDescription = WrongPassword
    /\ disk.len > FILE_APPENDIX_SIZE

\* lexicographic byte-wise comparison of the four cells in role order
RECURSIVE ByteRowCmp(_, _, _)
ByteRowCmp(a, b, i) ==
    IF i > DATA_COLS_COUNT THEN 0
    ELSE IF BytesCmp(a[i], b[i]) # 0 THEN BytesCmp(a[i], b[i])
    ELSE ByteRowCmp(a, b, i + 1)

ByteRowLess(a, b) == ByteRowCmp(a, b, 1) < 0

\* rows is sorted by the byte-wise key
InKeyOrder(rows) ==
    \A i, j \in 1..Len(rows) : i < j => ~ByteRowLess(rows[j], rows[i])

\* rows is sorted by DataRow::operator <
InOperatorOrder(rows) ==
    \A i, j \in 1..Len(rows) : i < j => ~RowLess(rows[j], rows[i])

\* the multiset of the elements of a sequence
BagOf(rows) ==
    [r \in {rows[k] : k \in 1..Len(rows)} |->
        Cardinality({k \in 1..Len(rows) : rows[k] = r})]

AllNonEmpty(rows) == \A k \in 1..Len(rows) : NonEmptyCells(rows[k]) # {}

\* readDbFile has returned true on the file the last writeDbFile left
RoundTrip == ReadOk /\ written.ok /\ AllNonEmpty(written.rows)

\* C6: writeDbFile then readDbFile under the same password, over records that
\* each have a non-empty cell, yields the same records with the same
\* multiplicities, iterated in the order of the byte-wise key.
C6_RoundTripInKeyOrder ==
    RoundTrip => BagOf(data) = BagOf(written.rows) /\ InKeyOrder(data)

\* the part of C6 that does not depend on the key: the records come back as
\* they were written, in the order of DataRow::operator <
C6_RoundTripInOperatorOrder ==
    RoundTrip => data = written.rows /\ InOperatorOrder(data)

\* two equal records went through a round trip
C6_Witness ==
    /\ RoundTrip
    /\ Len(data) = 2
    /\ data[1] = data[2]

\* the canonical form, read without any tolerance: cells of one record from
\* offset at to offset end, roles strictly rising, none empty
RECURSIVE StrictCells(_, _, _, _, _)
StrictCells(b, at, end, lastRole, row) ==
    IF at = end THEN [ok |-> TRUE, row |-> row]
    ELSE IF at + 2 > end \/ b[at + 1] < 128 \/ b[at + 1] >= 160
    THEN [ok |-> FALSE, row |-> row]
    ELSE LET c == CellOf(b[at + 1] - 128)
             n == b[at + 2]
         IN  IF c <= lastRole \/ n = 0 \/ n > 127 \/ at + 2 + n > end
             THEN [ok |-> FALSE, row |-> row]
             ELSE StrictCells(b, at + 2 + n, end, c,
                              [row EXCEPT ![c] = Sub(b, at + 2, at + 2 + n)])

\* the records of a payload from offset at on
RECURSIVE StrictRecords(_, _, _)
StrictRecords(b, at, rows) ==
    IF at = Len(b) THEN [ok |-> TRUE, rows |-> rows]
    ELSE IF at + 2 > Len(b) \/ b[at + 1] # 49 \/ b[at + 2] = 0 \/ b[at + 2] > 127
            \/ at + 2 + b[at + 2] > Len(b)
    THEN [ok |-> FALSE, rows |-> rows]
    ELSE LET c == StrictCells(b, at + 2, at + 2 + b[at + 2], 0, EmptyRow)
         IN  IF ~c.ok THEN [ok |-> FALSE, rows |-> rows]
             ELSE StrictRecords(b, at + 2 + b[at + 2], Append(rows, c.row))

\* a payload in canonical form and its records
StrictDb(b) ==
    IF Len(b) < 2 \/ Len(b) > 129 THEN [ok |-> FALSE, rows |-> <<>>]
    ELSE IF b[1] # 48 \/ b[2] # Len(b) - 2 THEN [ok |-> FALSE, rows |-> <<>>]
    ELSE StrictRecords(b, 2, <<>>)

\* the records with a non-empty cell, in order
Kept(rows) == SelectSeq(rows, LAMBDA r : NonEmptyCells(r) # {})

\* writeDbFile has returned true right after a readDbFile that returned true
Saved == call.op = "write" /\ call.ret /\ call.stage = "saved"

LastRound == rounds[Len(rounds)]

\* the payload holds the records read, every one and only those with a
\* non-empty cell, cells in role order and only of the four roles
CanonicalPayload ==
    Saved => StrictDb(LastRound).ok /\ StrictDb(LastRound).rows = Kept(data)

\* a second open-then-save writes the payload of the first
Idempotent == Saved /\ Len(rounds) = 2 => rounds[1] = rounds[2]

\* C7: open-then-save writes a canonical payload (all-empty records and
\* unknown-tag cells dropped, cells in role order, duplicates kept) with the
\* records in the order of the byte-wise key, and doing it again writes the
\* identical payload.
C7_StableCanonicalization ==
    /\ CanonicalPayload
    /\ Saved => InKeyOrder(StrictDb(LastRound).rows)
    /\ Idempotent

\* the part of C7 that does not depend on the key
C7_StableInOperatorOrder ==
    /\ CanonicalPayload
    /\ Saved => InOperatorOrder(StrictDb(LastRound).rows)
    /\ Idempotent

\* a second round over two records, one of which the file held with its
\* Comment cell before its Service cell
C7_Witness ==
    /\ Saved
    /\ Len(rounds) = 2
    /\ Len(data) = 2
    /\ \E k \in 1..2 : data[k][1] = <<97>> /\ data[k][4] = <<99>>

EqualKeyed(a, b) == ~RowLess(a, b) /\ ~RowLess(b, a)

\* C8: DataRow::operator < is the lexicographic byte-wise comparison of the
\* four cells in role order for all cell byte strings, records are equal-keyed
\* exactly when all four cells are byte-equal, and writeDbFile emits the
\* records in this order.
C8_OrderIsByteWise ==
    /\ \A i, j \in 1..Len(data) :
          /\ RowLess(data[i], data[j]) = ByteRowLess(data[i], data[j])
          /\ EqualKeyed(data[i], data[j]) = (data[i] = data[j])
    /\ written.ok => InKeyOrder(written.rows)

HasNul(row) == \E i \in 1..DATA_COLS_COUNT : \E k \in 1..Len(row[i]) : row[i][k] = 0

\* the part of C8 that holds: on cells without a zero byte the two orders agree
C8_ByteWiseWithoutNul ==
    \A i, j \in 1..Len(data) :
       ~HasNul(data[i]) /\ ~HasNul(data[j]) =>
          /\ RowLess(data[i], data[j]) = ByteRowLess(data[i], data[j])
          /\ EqualKeyed(data[i], data[j]) = (data[i] = data[j])

\* two records that differ behind a zero byte are in memory
C8_Witness ==
    /\ Len(data) = 2
    /\ EqualKeyed(data[1], data[2])
    /\ data[1] # data[2]

\* C18: writeDbFile never modifies `data` or the key, whether it returns true
\* or fails at serialization, encryption, creation, write, removal or rename.
C18_WriteKeepsDataAndKey ==
    [][call'.op = "write" => (data' = data /\ key' = key)]_vars

\* C18: a write that failed at the rename, the old file gone, with two
\* records in memory
C18_Witness ==
    /\ call.op = "write" /\ ~call.ret /\ Len(data) > 1
    /\ errorDescription = RenameError(IndexedName(0)) /\ disk = NoDisk

\* the key a file's tag was made under
TagKey(f) == f.tag[1]

\* the file is not what encryptData stored under key k: it is too short, it
\* was stored under another key, or its ciphertext, IV or tag was changed
NotStoredUnder(f, k) ==
    \/ f.len <= FILE_APPENDIX_SIZE
    \/ k # TagKey(f)
    \/ f.tag # <<TagKey(f), f.iv, f.ct>>

\* C19: readDbFile on a file of 28 bytes or fewer, with a wrong key, or with
\* a changed ciphertext, IV or tag returns false with the one message "Wrong
\* password or file corruption".
C19_OneOpaqueOutcome ==
    (call.op = "read" /\ call.opened /\ NotStoredUnder(disk, key)) =>
        (~call.ret /\ errorDescription = WrongPassword)

ReadRefused(f) ==
    /\ call.op = "read" /\ call.opened /\ disk = f
    /\ ~call.ret /\ errorDescription = WrongPassword

\* C19: a changed IV read under the right key
C19_Witness ==
    /\ key = DiskKey
    /\ ReadRefused([File(DiskKey, 5, Tlv(48, <<>>)) EXCEPT !.iv = 6])

\* the two passes of DataRow::encode on one record: the size of the sizing
\* pass, the bytes of the emitting pass into a buffer of that size
Sized(row) == EncodeSize(row, TRUE, 0)

Emitted(row) == EncodeBytes(row, Sized(row))

\* one universal constructed SET frame around the non-empty cells, in role
\* order, each a context-specific primitive frame
OneSetFrame(row) ==
    LET out == Emitted(row)
    IN  /\ Len(out) >= 2
        /\ out[1] = V_ASN1_UNIVERSAL + V_ASN1_CONSTRUCTED + V_ASN1_SET
        /\ out[2] = Len(out) - 2
        /\ StrictCells(out, 2, Len(out), 0, EmptyRow) = [ok |-> TRUE, row |-> row]

EncodesAsSized(row) ==
    /\ Len(Emitted(row)) = Sized(row)
    /\ IF NonEmptyCells(row) = {} THEN Sized(row) = 0 ELSE OneSetFrame(row)

WroteIt == call.op = "write" /\ call.ret

\* C21: DataRow::encode returns 0 and writes nothing for a record whose four
\* cells are all empty, and such a record is not in the file written;
\* otherwise it emits one universal constructed SET frame with exactly the
\* non-empty cells in role order 0,1,2,16, each a context-specific primitive
\* frame; the size of the sizing pass is the number of bytes the emitting
\* pass writes, and writeDbFile never reports a serialization error.
C21_EncodeMatchesSizing ==
    /\ \A k \in 1..Len(data) : EncodesAsSized(data[k])
    /\ errorDescription.msg # "Error serializing the data"
    /\ WroteIt =>
          LET payload == DecryptData(disk, key).buf
          IN  StrictDb(payload).ok /\ StrictDb(payload).rows = Kept(data)

\* C21: a record without cells and a record of two cells were written
C21_Witness ==
    /\ WroteIt
    /\ \E k \in 1..Len(data) : NonEmptyCells(data[k]) = {}
    /\ \E k \in 1..Len(data) : Cardinality(NonEmptyCells(data[k])) = 2

\* a number in base 128, most significant digit first
RECURSIVE Base128(_)
Base128(d) ==
    IF d = <<>> THEN 0 ELSE Base128(Sub(d, 0, Len(d) - 1)) * 128 + (d[Len(d)] % 128)

NoFrame == [ok |-> FALSE]

\* the frame at offset at of the bytes b up to offset end, by the grammar of
\* X.690: an identifier octet, a tag number in low or high form, a definite
\* length in short or long form, and a body that lies before end
Frame(b, at, end) ==
    IF at + 2 > end THEN NoFrame
    ELSE LET id == b[at + 1]
             stops == {k \in (at + 2)..end : b[k] < 128}
             tagEnd == IF id % 32 < 31 THEN at + 1
                       ELSE IF stops = {} THEN end
                       ELSE CHOOSE k \in stops : \A m \in stops : k <= m
         IN  IF tagEnd + 1 > end THEN NoFrame
             ELSE LET l == b[tagEnd + 1]
                      n == IF l > 128 THEN l - 128 ELSE 0
                  IN  IF l = 128 \/ tagEnd + 1 + n > end THEN NoFrame
                      ELSE LET length == IF l < 128 THEN l
                                         ELSE FromBigEndian(Sub(b, tagEnd + 1,
                                                                tagEnd + 1 + n))
                               body == tagEnd + 1 + n
                           IN  IF body + length > end THEN NoFrame
                               ELSE [ok |-> TRUE,
                                     class |-> (id \div 64) * 64,
                                     constructed |-> (id \div 32) % 2 = 1,
                                     tag |-> IF id % 32 < 31 THEN id % 32
                                             ELSE Base128(Sub(b, at + 1, tagEnd)),
                                     body |-> Sub(b, body, body + length),
                                     from |-> body,
                                     next |-> body + length]

\* the frames that fill b from offset at to offset end, <<NoFrame>> when the
\* bytes are not a sequence of frames
RECURSIVE Frames(_, _, _)
Frames(b, at, end) ==
    IF at >= end THEN <<>>
    ELSE LET f == Frame(b, at, end)
         IN  IF ~f.ok THEN <<NoFrame>>
             ELSE LET rest == Frames(b, f.next, end)
                  IN  IF rest = <<NoFrame>> THEN rest ELSE <<f>> \o rest

\* the frame is the header of a record: universal, constructed, tag 17
RecordHeader(f) ==
    f.ok /\ f.class = V_ASN1_UNIVERSAL /\ f.constructed /\ f.tag = V_ASN1_SET

\* the cells are context-specific primitive frames
CellFrames(cells) ==
    /\ cells # <<NoFrame>>
    /\ \A k \in 1..Len(cells) :
          cells[k].class = V_ASN1_CONTEXT_SPECIFIC /\ ~cells[k].constructed

\* the bodies of the cells with tag r, concatenated in file order
OfRole(cells, r) ==
    Concat([k \in 1..Len(cells) |-> IF cells[k].tag = r THEN cells[k].body ELSE <<>>])

\* what the parsing constructor is to do at offset at of the payload b
DecodesRecord(b, at) ==
    LET f == Frame(b, at, Len(b))
        e == ParseRow(b, at, Len(b))
    IN  IF RecordHeader(f)
        THEN LET cells == Frames(b, f.from, f.next)
             IN  /\ e.ptr = f.next
                 /\ CellFrames(cells) =>
                       e.row = [i \in 1..DATA_COLS_COUNT |-> OfRole(cells, cellTags[i])]
        ELSE e = [row |-> EmptyRow, ptr |-> Len(b)]

\* the offsets at which the record loop of readDbFile constructs a DataRow
RECURSIVE RecordOffsets(_, _)
RecordOffsets(b, at) ==
    IF at >= Len(b) THEN {}
    ELSE {at} \cup (IF RecordHeader(Frame(b, at, Len(b)))
                    THEN RecordOffsets(b, Frame(b, at, Len(b)).next)
                    ELSE {})

\* the payload of the file, when readDbFile has returned true on it
Payload == DecryptData(disk, key).buf

PayloadFrom == Frame(Payload, 0, Len(Payload)).from

\* C23: decoding one well-formed record frame (universal constructed tag 17
\* around context-specific primitive cell frames) gives, for each role tag in
\* {0,1,2,16}, the concatenation in file order of the bodies of the cell
\* frames with that tag; cell frames with another tag change no cell; the
\* cursor ends at the end of the record frame.  On a record-header failure
\* the cursor is set to the end of the buffer and the record is all-empty.
\* readDbFile holds exactly the records decoded this way.
C23_CellsAppendByRole ==
    ReadOk =>
        /\ \A at \in RecordOffsets(Payload, PayloadFrom) : DecodesRecord(Payload, at)
        /\ BagOf(data) = BagOf([k \in 1..Cardinality(RecordOffsets(Payload, PayloadFrom)) |->
                                  LET at == CHOOSE a \in RecordOffsets(Payload, PayloadFrom) :
                                              Cardinality({x \in RecordOffsets(Payload, PayloadFrom) : x < a}) = k - 1
                                  IN  ParseRow(Payload, at, Len(Payload)).row])

\* C23: a file was read that holds a record with a repeated role tag, a
\* record with a cell of an unknown tag, and a record header that fails
C23_Witness ==
    /\ ReadOk
    /\ Len(data) = 3
    /\ \E k \in 1..3 : data[k] = [EmptyRow EXCEPT ![1] = <<97, 98>>]
    /\ \E k \in 1..3 : data[k] = [EmptyRow EXCEPT ![1] = <<97>>]
    /\ \E k \in 1..3 : data[k] = EmptyRow

\* the values of curPtr at the tests of while( curPtr < endPtr ) in
\* readDbFile, for at most the given number of passes
RECURSIVE RecordCursors(_, _, _, _)
RecordCursors(buf, curPtr, endPtr, passes) ==
    IF curPtr < endPtr /\ passes > 0
    THEN <<curPtr>> \o RecordCursors(buf, ParseRow(buf, curPtr, endPtr).ptr,
                                     endPtr, passes - 1)
    ELSE <<curPtr>>

\* the values of curPtr at the tests of while( curPtr < entryEnd ) in the
\* parsing constructor, up to the pass that returns
RECURSIVE CellCursors(_, _, _)
CellCursors(buf, cur, entryEnd) ==
    IF cur < entryEnd /\ ParseCell(buf, cur, entryEnd).ok
    THEN <<cur>> \o CellCursors(buf, ParseCell(buf, cur, entryEnd).cur, entryEnd)
    ELSE <<cur>>

\* each value of a cursor lies after the one before it and not after end
Advances(cs, end) == \A k \in 1..(Len(cs) - 1) : cs[k] < cs[k + 1] /\ cs[k + 1] <= end

\* the cell loop of the record frame f stays inside the body of f
CellsStayInside(b, f) ==
    LET cc == CellCursors(b, f.from, f.next)
    IN  /\ cc[1] = f.from
        /\ Advances(cc, f.next)
        /\ \A k \in 1..(Len(cc) - 1) :
              LET c == ParseCell(b, cc[k], f.next)
              IN  cc[k] + 2 <= cc[k + 1] /\ Len(c.body) <= cc[k + 1] - cc[k] - 2

\* C29: the record loop of readDbFile ends for every decrypted payload that
\* passes the outer-frame check: each DataRow parse moves the cursor forward,
\* to the end of its record frame or, on a header failure, to the end of the
\* buffer, and never beyond the end of the buffer; each cell parse inside a
\* record stays within the inner region of that record.
C29_RecordLoopTerminates ==
    ReadOk =>
        LET b == Payload
            cs == RecordCursors(b, PayloadFrom, Len(b), Len(b))
        IN  /\ cs[Len(cs)] = Len(b)
            /\ Len(cs) - 1 = Len(data)
            /\ Advances(cs, Len(b))
            /\ \A k \in 1..(Len(cs) - 1) :
                  LET f == Frame(b, cs[k], Len(b))
                  IN  IF RecordHeader(f)
                      THEN cs[k + 1] = f.next /\ CellsStayInside(b, f)
                      ELSE cs[k + 1] = Len(b)

\* C29: a payload was read with a record whose cell claims more bytes than
\* the record has, a record after it, and a record header that fails
C29_Witness ==
    /\ ReadOk
    /\ LET b == Payload
           cs == RecordCursors(b, PayloadFrom, Len(b), Len(b))
       IN  /\ Len(cs) = 4
           /\ LET f == Frame(b, cs[1], Len(b))
              IN  /\ RecordHeader(f)
                  /\ CellCursors(b, f.from, f.next) = <<f.from>>
                  /\ f.from < f.next
                  /\ f.from + 2 + b[f.from + 2] > f.next
           /\ ~RecordHeader(Frame(b, cs[3], Len(b)))
           /\ cs[3] + 2 < Len(b)

-----------------------------------------------------------------------------
(* Properties of the generators *)

Made(fn) == gen # NoGen /\ gen.fn = fn

Strings == {"makePin", "makePassword", "makeHexBlock"}

\* C11: a generator call in which RAND_bytes failed returns the empty string,
\* never a partial or a filler output.
C11_EmptyOnFailure ==
    (gen # NoGen /\ gen.fn \in Strings /\ ~gen.ok) => gen.res = <<>>

\* C11: a call that failed after the pool had run dry
C11_Witness ==
    gen # NoGen /\ gen.fn \in Strings /\ ~gen.ok /\ gen.used > 0

\* the word of t a draw was stored into: draw 0 is the first 32 bits of the
\* stream, its first bit the highest
DueWord(k) == [i \in 1..WordBits |-> gen.due[k * WordBits + (WordBits + 1 - i)]]

\* t % modulo for the t the two draws make up, the first draw at the lower address
DueNumber ==
    IF gen.littleEndian THEN Mod64(DueWord(1), DueWord(0), gen.arg)
    ELSE Mod64(DueWord(0), DueWord(1), gen.arg)

\* the unread bits a call with one refill at most has taken
Consumed == gen.had + (IF gen.used > 0 THEN PoolBits ELSE 0) - poolSize

\* C12: makeNumber(modulo) that succeeds has taken exactly the next 64 bits of
\* the stream in two draws of 32 and returns the 64-bit number they make up
\* reduced modulo `modulo`, a value in [0, modulo); a call in which a draw
\* fails returns `modulo`.
C12_NumberIsDrawReduced ==
    Made("makeNumber") =>
        IF gen.ok
        THEN /\ gen.ret \in 0..(gen.arg - 1)
             /\ gen.ret = DueNumber
             /\ Consumed = 2 * WordBits
        ELSE gen.ret = gen.arg

\* C12: a call whose two draws differ, the first from the old buffer and the
\* second across the refill, with a result that is not zero
C12_Witness ==
    /\ Made("makeNumber") /\ gen.ok /\ gen.used = 1
    /\ gen.had > WordBits /\ gen.had < 2 * WordBits
    /\ DueWord(0) # DueWord(1)
    /\ gen.arg = 10000 /\ gen.ret > 0

\* C13: makePin(n) returns exactly n characters, each a digit, and has made
\* one makeNumber call for every started block of 4.
C13_PinLengthAndDigits ==
    Made("makePin") =>
        /\ Len(gen.res) = gen.arg
        /\ \A k \in 1..Len(gen.res) : gen.res[k] \in 0..9
        /\ Len(gen.blocks) = (gen.arg + 3) \div 4

\* C13: a pin whose last block is cut, made across a refill
C13_Witness ==
    /\ Made("makePin") /\ gen.ok /\ gen.arg % 4 # 0 /\ gen.arg > 4
    /\ gen.used = 1 /\ gen.had > 0

\* the characters of block k that are left after res.resize( length )
BlockChars(k) ==
    [j \in 1..(IF 4 * k <= gen.arg THEN 4 ELSE gen.arg - 4 * (k - 1)) |->
        gen.res[4 * (k - 1) + j]]

\* the first n of the four characters a block holds
Cut(block, n) == [j \in 1..n |-> block[j]]

\* the zero-padded decimal representation of t
Decimal(t) == <<(t \div 1000) % 10, (t \div 100) % 10, (t \div 10) % 10, t % 10>>

\* C14 as stated: every block is the zero-padded 4-digit decimal representation
\* of a number in [0, 10000) that makeNumber(10000) returned, the last block cut.
C14_BlocksAreDecimal ==
    Made("makePin") =>
        \A k \in 1..Len(gen.blocks) :
            /\ gen.blocks[k].ret \in 0..9999
            /\ BlockChars(k) = Cut(Decimal(gen.blocks[k].ret), Len(BlockChars(k)))

\* the weight of the j-th digit from the low end
Tens == <<1, 10, 100, 1000>>

\* C14: every block holds the four decimal digits of what makeNumber(10000)
\* returned, lowest digit first: a number in [0, 10000) when the draws
\* succeeded, and 10000 (the digits 0000) when one failed; the last block is
\* cut so that the length is `length`.
C14_BlocksAreDigitsLowFirst ==
    Made("makePin") =>
        \A k \in 1..Len(gen.blocks) :
            /\ gen.blocks[k].ret \in 0..10000
            /\ gen.blocks[k].ok <=> gen.blocks[k].ret < 10000
            /\ \A j \in 1..Len(BlockChars(k)) :
                   BlockChars(k)[j] = (gen.blocks[k].ret \div Tens[j]) % 10

\* C14: a pin of two blocks, the first with four different digits, the last cut
C14_Witness ==
    /\ Made("makePin") /\ gen.ok /\ Len(gen.blocks) = 2 /\ gen.arg % 4 # 0
    /\ gen.blocks[1].ret # gen.blocks[2].ret
    /\ Cardinality({gen.res[j] : j \in 1..4}) > 2

-----------------------------------------------------------------------------
(* Properties of makeName *)

Named == gen # NoGen /\ gen.fn = "makeName"

\* the duplication steps: never the consonant of syllable 0, the vowel only
\* in an output longer than one character, never the literal the word starts with
DupsSpareFirstLetter ==
    Named =>
        \A k \in 1..Len(gen.dups) :
            /\ gen.dups[k].kind = "consonant" => gen.dups[k].i # 0
            /\ gen.dups[k].kind = "vowel" => gen.dups[k].size > 1
            /\ gen.dups[k].at > 1

\* the output begins with the same letter twice
DoubledStart == Len(gen.res) >= 2 /\ gen.res[1] = gen.res[2]

NoDoubledStart == (Named /\ gen.pc = "done") => ~DoubledStart

\* C20 as stated: the duplication steps never duplicate the first letter, so
\* no output begins with a doubled first letter.
C20_NeverDoubledFirstLetter == DupsSpareFirstLetter /\ NoDoubledStart

\* C20: the consonant-duplication step never fires in syllable 0, the
\* vowel-duplication step fires only when the output is longer than one
\* character after V is appended, and neither duplicates the literal the word
\* starts with; an output can still begin with a doubled letter, made of two
\* literals.
C20_DuplicationSparesFirstLetter == DupsSpareFirstLetter

\* C20: a word that begins with a lone vowel followed by the same vowel, in
\* which the vowel-duplication step fired
C20_Witness ==
    /\ Named /\ gen.pc = "done" /\ gen.ok /\ DoubledStart
    /\ \E k \in 1..Len(gen.dups) : gen.dups[k].kind = "vowel"

\* C22 as stated: when the 4-bit value drawn after C1 is 12 or more, a second
\* consonant C2 and a new 4-bit value are drawn, and C2 is appended to the
\* output before the vowel of the syllable.
C22_SecondConsonantEmitted ==
    (Named /\ gen.pc = "vowel") =>
        \A k \in 1..Len(gen.extra) :
            gen.res = gen.extra[k].before \o gen.extra[k].value

\* C22: a second consonant of one letter or more was drawn, with its 4-bit
\* value, and the vowel of the syllable comes next
C22_Witness ==
    /\ Named /\ gen.pc = "vowel" /\ gen.ok /\ gen.i = 1
    /\ \E k \in 1..Len(gen.extra) :
          gen.extra[k].value # <<>> /\ gen.extra[k].before # <<>>

\* the weights of the first k entries of a table, added up
Cumulative(set, k) == SumOf([j \in 1..k |-> set[j].weight])

\* the values of a 24-bit draw
Values24 == 2^24

\* entry k is returned from the first value not taken by the entries before
\* it up to the last of its weight_k values, and no value is left over
WalkIsExact(set) ==
    /\ Cumulative(set, Len(set)) = Values24
    /\ \A k \in 1..Len(set) :
          /\ set[k].weight > 0
          /\ GetLiteral(set, Cumulative(set, k - 1)) = set[k]
          /\ GetLiteral(set, Cumulative(set, k) - 1) = set[k]
          /\ k > 1 => GetLiteral(set, Cumulative(set, k - 1) - 1) = set[k - 1]
    /\ \A t \in Draws24 : GetLiteral(set, t) # NoLiteral

\* makeName has returned at a literal that was not found
StoppedAtLiteral == Named /\ gen.pc = "done" /\ ~gen.ok

\* C24: the weights of each of vowelSet, consonantSet and wordEndSet sum to
\* 2^24, so for every successful 24-bit draw getLiteral returns an entry of
\* the table, never NULL, and entry k is returned for exactly weight_k of the
\* 2^24 values; makeName stops early only at a draw that failed, which
\* leaves the pool empty.
C24_WeightsFillTheDraw ==
    /\ WalkIsExact(vowelSet) /\ WalkIsExact(consonantSet) /\ WalkIsExact(wordEndSet)
    /\ [][StoppedAtLiteral' /\ ~StoppedAtLiteral => poolSize' = 0]_vars

\* C24: the last of the 2^24 values was drawn for the consonant, for the vowel
\* and for the word end
C24_Witness ==
    /\ Named /\ gen.pc = "done" /\ gen.ok
    /\ gen.res = <<"z", "y", "c", "y">>

-----------------------------------------------------------------------------
(* Properties of main *)

Started == main # NoMain

Exited == Started /\ main.pc = "exit"

\* the program was started with one argument that is no command keyword
OneFileArgument ==
    Started /\ Len(main.argv) = 1 /\ identifyCommand(main.argv[1]) = {}

\* what "open" does up to the editor: the master password, the read, the window
OpensIt ==
    /\ main.cmd = identifyCommand("open")
    /\ ~main.help
    /\ main.window => main.log = <<"password", "setPassword", "read", "window">>
    /\ (Exited /\ ~main.window) => main.code = 1

C15_WitnessMissing == OneFileArgument /\ main.found = NoDisk /\ Exited

ChangesPassword == Started /\ main.argv = <<"chpass", "db">>

\* the events of chpass in their order, with n rounds of the two prompts
ChpassOrder(n) ==
    <<"password", "setPassword", "read">> \o Prompts(n) \o <<"setPassword", "write">>

IsPrefix(a, b) == Len(a) <= Len(b) /\ \A k \in 1..Len(a) : a[k] = b[k]

Wrote == \E k \in 1..Len(main.log) : main.log[k] = "write"

\* C16: chpass <file> reads the file under the entered password, prompts for
\* the new password twice until the entries match, replaces the key, and
\* writes the records it read under the new key, in this order and without
\* the editor; when the read fails or a prompt is cancelled nothing is
\* written, the file is as it was and the exit code is 1; the exit code is 0
\* only after a write that succeeded.
C16_ChpassOrder ==
    ChangesPassword =>
        /\ ~main.window
        /\ \E n \in 1..(MaxMismatches + 1) :
              \/ IsPrefix(main.log, ChpassOrder(n))
              \/ /\ Exited /\ main.code = 1
                 /\ IsPrefix(SubSeq(main.log, 1, Len(main.log) - 1), ChpassOrder(n))
                 /\ main.log[Len(main.log)] = "errorDialog"
        /\ (Exited /\ ~Wrote) => (main.code = 1 /\ disk = main.found)
        /\ (Exited /\ main.code = 0) =>
              /\ Wrote /\ call.op = "write" /\ call.ret
              /\ data = main.read
              /\ \E iv \in IVs : disk = File(key, iv, Serialize(main.read).buf)
              /\ \E pw \in Passwords : key = Kdf(pw)

\* C16: the password was changed after a round of entries that differed
C16_Witness ==
    /\ ChangesPassword /\ Exited /\ main.code = 0
    /\ main.log = ChpassOrder(2)
    /\ key # DiskKey /\ Len(main.read) = 2

\* the program is running
Program == main.pc \notin {"none", "engine"}

\* a setPassword call of the program has returned true
SetPasswordReturnedTrue ==
    \E k \in 1..Len(main.log) :
        /\ main.log[k] = "setPassword"
        /\ k = Len(main.log) \/ main.log[k + 1] # "errorDialog"

\* the program calls writeDbFile in this step: without a window, or in save()
WritesDb ==
    /\ Program
    /\ \/ main.pc = "write" /\ main'.pc = "exit"
       \/ main.pc = "window" /\ main'.saves > main.saves

\* each writeDbFile of the program comes after a setPassword that returned
\* true, and is made under the key it derived
WriteAfterSetPassword ==
    [][WritesDb => /\ SetPasswordReturnedTrue
                  /\ \E pw \in Passwords : key = Kdf(pw)
                  /\ call'.op = "write"]_vars

\* writeDbFile has failed at encryptData, before writeFileContent
FailsEncrypting ==
    /\ ~call'.ret
    /\ errorDescription'.msg = "Error encrypting the data"
    /\ disk' = disk

\* the keys setPassword derives
DerivedKeys == {Kdf(pw) : pw \in Passwords}

\* C26 as stated: in every run of the program (no argument, <file>, open,
\* new, chpass, and every save of the editor) each call of writeDbFile comes
\* after a setPassword call that returned true on the same engine; a
\* writeDbFile on an engine with no derived key fails with "Error encrypting
\* the data" before a file is created, removed or renamed.
C26_WriteOnlyWithKey ==
    /\ WriteAfterSetPassword
    /\ [][(call'.op = "write" /\ key \notin DerivedKeys) => FailsEncrypting]_vars

\* the part of C26 that holds: the writes of the program, and a writeDbFile
\* on an engine whose setPassword was never called
C26_WriteOnlyAfterSetPassword ==
    /\ WriteAfterSetPassword
    /\ [][(call'.op = "write" /\ key = NoKey) => FailsEncrypting]_vars

\* C26: a direct caller's writeDbFile has stored a file under the key a
\* failed setPassword left behind
C26_Witness ==
    /\ main = Direct /\ key = JunkKey /\ call.op = "write" /\ call.ret
    /\ \E iv \in IVs : disk = File(JunkKey, iv, Serialize(data).buf)

\* the editor of "new" has saved at its second attempt
C26_WitnessEditor ==
    /\ Program /\ main.argv = <<"new", "db">> /\ main.pc = "exit" /\ main.window
    /\ main.saves = 2 /\ call.op = "write" /\ call.ret /\ disk # NoDisk

\* a direct caller's writeDbFile has failed for want of a key
C26_WitnessUnkeyed ==
    /\ main = Direct /\ key = NoKey /\ call.op = "write" /\ ~call.ret
    /\ errorDescription.msg = "Error encrypting the data"

-----------------------------------------------------------------------------
(* Properties of the main window *)

\* the table has one row more than commentStorage has entries, and its last
\* row is the one nothing was entered in
OneBlankRow ==
    /\ rowCount(main) = Len(main.commentStorage) + 1
    /\ main.table[rowCount(main)] = BlankRow
    /\ \A i \in 1..(rowCount(main) - 1) : main.table[i].id # 0
    /\ \A i, j \in 1..(rowCount(main) - 1) : main.table[i].id = main.table[j].id => i = j

\* comment i was loaded or entered for table row i
CommentOfRow ==
    \A i \in 1..Len(main.commentStorage) : main.commentStorage[i].of = main.table[i].id

\* the comment editor is enabled on rows with a comment only, and a text
\* in it is of the current row
EditorOfCurrentRow ==
    main.commentEdit.enabled =>
        /\ main.currentRow \in 0..(Len(main.commentStorage) - 1)
        /\ main.commentEdit.of \in {0, main.table[main.currentRow + 1].id}
        /\ main.commentEdit.modified => main.commentEdit.of # 0

\* deleteRow has removed a row
Deleted == main'.did # <<>> /\ main'.did[1] = "deleteRow" /\ main' # main

\* randomizeCell has set a text
Randomized == main'.did # <<>> /\ main'.did[1] = "randomizeCell" /\ main' # main

\* the row is gone from the table together with its comment and no other
DeletesRowAndComment ==
    LET r == main.currentRow
    IN  /\ r \in 0..(rowCount(main) - 2)
        /\ main'.table = Without(main.table, r)
        /\ main'.commentStorage = Without(main.commentStorage, r)

\* a cell of the current row, which is not the last, has got the text
RandomizesEnteredRow ==
    LET r == main.currentRow
    IN  /\ r \in 0..(rowCount(main) - 2)
        /\ rowCount(main') = rowCount(main)
        /\ main'.commentStorage = main.commentStorage
        /\ \A i \in 1..rowCount(main) :
              i # r + 1 => main'.table[i] = main.table[i]

\* C28: after construction and after any sequence of cell edits, row
\* deletions, cell randomizations and changes of the selected row, the table
\* has exactly one more row than commentStorage has entries (one trailing
\* blank row), comment i belongs to table row i, deleting row r removes
\* exactly comment r, and the trailing blank row is neither deleted nor
\* randomized.
C28_EditorInvariant ==
    /\ [](OneBlankRow /\ CommentOfRow /\ EditorOfCurrentRow)
    /\ [][Deleted => DeletesRowAndComment]_vars
    /\ [][Randomized => RandomizesEnteredRow]_vars

\* C28: the first of two rows was deleted while the comment of the second
\* was a text entered in the editor; that comment is now comment 0
C28_Witness ==
    /\ main.did = <<"deleteRow", 0, 3>>
    /\ rowCount(main) = 2
    /\ main.commentStorage[1].text = <<100>>
    /\ main.commentStorage[1].of = main.table[1].id

\* a cell of an entered row was randomized with the last row current before
C28_WitnessRandomized ==
    /\ main.did # <<>> /\ main.did[1] = "randomizeCell"
    /\ main.table[main.currentRow + 1].items[main.currentColumn + 1] = <<122>>

=============================================================================
